---------------------------- MODULE Spec2Model ----------------------------
(***************************************************************************)
(* Pulse Scoring Engine 2.0 (PulseScoringService): seven category scorers, *)
(* the confidence / coverage evaluator, the insufficient-data gate, the    *)
(* reweighting aggregator and the recommendation / risk synthesizer.       *)
(*                                                                         *)
(* Numbers: percentages and scores are integers; confidence, coverage,     *)
(* recency and consistency are kept in hundredths (0.35 is 35); the        *)
(* average rating is kept in tenths (4.5 is 45); the category weights are  *)
(* kept in hundredths (0.25 is 25).                                        *)
(* Text: a string is an atom of a fixed vocabulary; toLowerCase,           *)
(* toUpperCase, length, includes and the regular-expression tests are      *)
(* tabulated over that vocabulary.                                         *)
(***************************************************************************)
EXTENDS Integers, Sequences, FiniteSets, TLC

VARIABLES
    op,              \* last operation applied: "idle" or the method's name
    sellerData,      \* argument sellerData of the last call
    recentListings,  \* argument recentListings of the last call
    veribleFeedback, \* argument veribleFeedback of the last call
    categories,      \* the categories map the call worked on
    result,          \* the value returned, or the error thrown
    categoryWeights, \* this.categoryWeights of the exported service instance
    args,            \* the caller's argument objects as they were passed
    tiesRoundDown,   \* whether a weighted sum on an exact half rounds down
    earlier          \* a call whose arguments and result the caller has kept

vars == <<op, sellerData, recentListings, veribleFeedback, categories, result,
          categoryWeights, args, tiesRoundDown, earlier>>

-----------------------------------------------------------------------------
(* Bounds of the model *)

\* longest recentListings array given to the red-flag and completeness scorers
MaxListings == 6
\* longest recentListings array given to calculatePulseScore
MaxScoredListings == 1
\* largest number of endorsements, and of flags, in veribleFeedback
MaxFeedback == 5

-----------------------------------------------------------------------------
(* JavaScript values *)

\* null / undefined of a string-valued field
Undefined == "undefined"
\* null of a numeric score; JavaScript coerces null to 0 in the numeric
\* comparisons of the code (> 0, < 30, >= 80 ...), and -1 orders the same way
\* against every one of these thresholds
Null == 0 - 1
\* the sellerData argument when the caller passes null
NullSeller == [isNull |-> TRUE]
\* the veribleFeedback argument when the caller passes null (the default)
NoFeedback == [isNull |-> TRUE, endorsements |-> 0, flags |-> 0]

Min(a, b) == IF a <= b THEN a ELSE b
Max(a, b) == IF a >= b THEN a ELSE b

\* Math.round(n / d) for n >= 0, d > 0, on the exact quotient: half rounds up
RoundHalfUp(n, d) == (2 * n + d) \div (2 * d)

\* n / d is exactly half-way between two integers
IsHalf(n, d) == (2 * n) % (2 * d) = d

\* Math.round of a double accumulated with rounding error around n / d: off
\* an exact half the error is too small to matter; on an exact half the double
\* lies on, or just below, the half, and tieDown says which
MathRound(n, d, tieDown) ==
    IF IsHalf(n, d) /\ tieDown THEN RoundHalfUp(n, d) - 1 ELSE RoundHalfUp(n, d)

RECURSIVE SumSeq(_)
SumSeq(s) == IF s = <<>> THEN 0 ELSE Head(s) + SumSeq(Tail(s))

RECURSIVE FlattenSeq(_)
FlattenSeq(ss) == IF ss = <<>> THEN <<>> ELSE Head(ss) \o FlattenSeq(Tail(ss))

\* Array.prototype.slice(0, n)
Slice(s, n) == SubSeq(s, 1, Min(Len(s), n))

\* all sequences over S of length 0..n
SeqsUpTo(S, n) == UNION {[1..k -> S] : k \in 0..n}

-----------------------------------------------------------------------------
(* Text vocabulary *)

\* String.prototype.toLowerCase
toLowerCase(s) ==
    CASE s = "Phone-Verified" -> "phone-verified"
      [] s = "We sell phones and accessories" -> "we sell phones and accessories"
      [] s = "iPhone 12" -> "iphone 12"
      [] s = "IPHONE 12 PRO" -> "iphone 12 pro"
      [] s = "URGENT SALE" -> "urgent sale"
      [] s = "Hot deal with four emoji" -> "hot deal with four emoji"
      [] s = "Clean phone, barely used, long description" ->
             "clean phone, barely used, long description"
      [] s = "URGENT, CASH ONLY, message me on WhatsApp" ->
             "urgent, cash only, message me on whatsapp"
      [] s = "Must sell, first come first serve" ->
             "must sell, first come first serve"
      [] OTHER -> s

\* String.prototype.toUpperCase
toUpperCase(s) ==
    CASE s = "iPhone 12" -> "IPHONE 12"
      [] s = "Hot deal with four emoji" -> "HOT DEAL WITH FOUR EMOJI"
      [] s = "tv" -> "TV"
      [] OTHER -> s

\* String.prototype.length
length(s) ==
    CASE s = "" -> 0
      [] s = "TV" -> 2
      [] s = "tv" -> 2
      [] s = "iPhone 12" -> 9
      [] s = "IPHONE 12 PRO" -> 13
      [] s = "URGENT SALE" -> 11
      [] s = "Hot deal with four emoji" -> 16
      [] s = "250000" -> 6
      [] s = "500" -> 3
      [] s = "Clean phone, barely used, long description" -> 120
      [] s = "URGENT, CASH ONLY, message me on WhatsApp" -> 41
      [] s = "Must sell, first come first serve" -> 33
      [] OTHER -> 40

\* the searched words and phrases that occur in a lower-case text
Substrings(s) ==
    CASE s = "id-verified" -> {"id"}
      [] s = "phone-verified" -> {"phone"}
      [] s = "email-verified" -> {"email"}
      [] s = "we sell phones and accessories" -> {"we sell", "phone"}
      [] s = "iphone 12" -> {"phone"}
      [] s = "iphone 12 pro" -> {"phone"}
      [] s = "urgent sale" -> {"urgent"}
      [] s = "clean phone, barely used, long description" -> {"phone"}
      [] s = "urgent, cash only, message me on whatsapp" ->
             {"urgent", "cash only", "whatsapp"}
      [] s = "must sell, first come first serve" ->
             {"must sell", "first come", "first serve"}
      [] OTHER -> {}

\* String.prototype.includes on a lower-case text
includes(s, word) == word \in Substrings(s)

\* number of emoji / pictograph code points of a text
EmojiCount(s) == IF s = "hot deal with four emoji" THEN 4 ELSE 0

\* RegExp.prototype.test for a regular expression that is an alternation of
\* literal words, on the template string `${titleLower} ${descLower}`
test(words, titleLower, descLower) ==
    \E w \in words : includes(titleLower, w) \/ includes(descLower, w)

-----------------------------------------------------------------------------
(* PulseScoringService *)

\* Object.keys(categories), in declaration order
CategoryKeys ==
    <<"verificationIdentity", "accountMaturity", "listingCompleteness",
      "activityRecency", "engagement", "communityFeedback",
      "behavioralRedFlags">>

CategoryKeySet == {CategoryKeys[i] : i \in 1..Len(CategoryKeys)}

\* the fields the constructor sets: the category weights, in hundredths
constructor ==
    [categoryWeights |->
        [verificationIdentity |-> 25, accountMaturity |-> 15,
         listingCompleteness |-> 15, activityRecency |-> 10, engagement |-> 10,
         communityFeedback |-> 10, behavioralRedFlags |-> 15]]

\* Category 1 with the email tier worth 75 points, more than the phone tier
calculateVerificationIdentityScore_EmailTier(sd) ==
    LET raw == sd.verificationStatus
        verification == IF raw = Undefined \/ raw = ""
                        THEN "unverified" ELSE toLowerCase(raw)
        hasPhoto == sd.profilePicture # Undefined /\ sd.profilePicture # ""
        hasLocation == /\ sd.location # Undefined
                       /\ sd.location # ""
                       /\ sd.location # "Not specified"
        base == IF \/ includes(verification, "id")
                   \/ verification = "id-verified"
                   \/ verification = "identity verified" THEN 100
                ELSE IF \/ includes(verification, "phone")
                        \/ verification = "phone-verified" THEN 70
                ELSE IF \/ includes(verification, "email")
                        \/ verification = "email-verified" THEN 75
                ELSE 0
        verificationType == IF base = 100 THEN "ID Verified"
                            ELSE IF base = 70 THEN "Phone Verified"
                            ELSE IF base = 75 THEN "Email Verified"
                            ELSE "Not Verified"
        withPhoto == IF hasPhoto THEN Min(100, base + 10) ELSE base
        withLocation == IF hasLocation THEN Min(100, withPhoto + 10) ELSE withPhoto
        profilePhoto == IF hasPhoto THEN "true"
                        ELSE IF sd.dataAvailability.profilePicture = "platform_unavailable"
                             THEN "platform_unavailable" ELSE "false"
        location == IF hasLocation THEN "true"
                    ELSE IF sd.dataAvailability.location = "platform_unavailable"
                         THEN "platform_unavailable" ELSE "false"
    IN  [score |-> Min(100, withLocation), available |-> TRUE,
         breakdown |-> [verificationType |-> verificationType,
                        profilePhoto |-> profilePhoto, location |-> location]]

\* Category 1: Verification & Identity
calculateVerificationIdentityScore(sd) ==
    LET raw == sd.verificationStatus
        verification == IF raw = Undefined \/ raw = ""
                        THEN "unverified" ELSE toLowerCase(raw)
        hasPhoto == sd.profilePicture # Undefined /\ sd.profilePicture # ""
        hasLocation == /\ sd.location # Undefined
                       /\ sd.location # ""
                       /\ sd.location # "Not specified"
        base == IF \/ includes(verification, "id")
                   \/ verification = "id-verified"
                   \/ verification = "identity verified" THEN 100
                ELSE IF \/ includes(verification, "phone")
                        \/ verification = "phone-verified" THEN 70
                ELSE IF \/ includes(verification, "email")
                        \/ verification = "email-verified" THEN 50
                ELSE 0
        verificationType == IF base = 100 THEN "ID Verified"
                            ELSE IF base = 70 THEN "Phone Verified"
                            ELSE IF base = 50 THEN "Email Verified"
                            ELSE "Not Verified"
        withPhoto == IF hasPhoto THEN Min(100, base + 10) ELSE base
        withLocation == IF hasLocation THEN Min(100, withPhoto + 10) ELSE withPhoto
        profilePhoto == IF hasPhoto THEN "true"
                        ELSE IF sd.dataAvailability.profilePicture = "platform_unavailable"
                             THEN "platform_unavailable" ELSE "false"
        location == IF hasLocation THEN "true"
                    ELSE IF sd.dataAvailability.location = "platform_unavailable"
                         THEN "platform_unavailable" ELSE "false"
    IN  [score |-> Min(100, withLocation), available |-> TRUE,
         breakdown |-> [verificationType |-> verificationType,
                        profilePhoto |-> profilePhoto, location |-> location]]

\* Category 2 with the 6-month tier starting after the sixth month
calculateAccountMaturityScore_LateTier(sd) ==
    LET accountAgeMonths == sd.accountAge
    IN  IF accountAgeMonths = 0
        THEN [score |-> Null, available |-> FALSE,
              breakdown |-> [months |-> 0, message |-> "Account age not available"]]
        ELSE [score |-> IF accountAgeMonths >= 12 THEN 100
                        ELSE IF accountAgeMonths > 6 THEN 70
                        ELSE IF accountAgeMonths >= 3 THEN 40
                        ELSE 10,
              available |-> TRUE,
              breakdown |-> [months |-> accountAgeMonths]]

\* Category 2: Account Maturity
calculateAccountMaturityScore(sd) ==
    LET accountAgeMonths == sd.accountAge
    IN  IF accountAgeMonths = 0
        THEN [score |-> Null, available |-> FALSE,
              breakdown |-> [months |-> 0, message |-> "Account age not available"]]
        ELSE [score |-> IF accountAgeMonths >= 12 THEN 100
                        ELSE IF accountAgeMonths >= 6 THEN 70
                        ELSE IF accountAgeMonths >= 3 THEN 40
                        ELSE 10,
              available |-> TRUE,
              breakdown |-> [months |-> accountAgeMonths]]

\* points of one listing without the partial credit for one or two photos
ListingScore_NoPartialCredit(listing) ==
      (IF listing.title # Undefined /\ length(listing.title) > 0 THEN 5 ELSE 0)
    + (IF /\ listing.price # Undefined
          /\ length(listing.price) > 0
          /\ listing.hasPrice # "false" THEN 10 ELSE 0)
    + (IF listing.imageCount >= 3 THEN 15
       ELSE 0)
    + (IF /\ listing.description # Undefined
          /\ listing.description # ""
          /\ listing.descriptionLength >= 100 THEN 20 ELSE 0)

\* points of one listing (the body of the forEach of Listing Completeness)
ListingScore(listing) ==
      (IF listing.title # Undefined /\ length(listing.title) > 0 THEN 5 ELSE 0)
    + (IF /\ listing.price # Undefined
          /\ length(listing.price) > 0
          /\ listing.hasPrice # "false" THEN 10 ELSE 0)
    + (IF listing.imageCount >= 3 THEN 15
       ELSE IF listing.imageCount >= 1 THEN 5 ELSE 0)
    + (IF /\ listing.description # Undefined
          /\ listing.description # ""
          /\ listing.descriptionLength >= 100 THEN 20 ELSE 0)

\* Math.round(Math.min(100, (totalScore / n / 50) * 100)): the quotient
\* 2 * totalScore / n in doubles.  Over every total the loop can produce
\* (multiples of 5 up to 50 * n, n <= 5) the double is the exact value, but
\* for 115 / 4 / 50 * 100, which evaluates to 57.49999999999999
NormalizedListingScore(totalScore, n) ==
    IF totalScore = 115 /\ n = 4 THEN 57
    ELSE RoundHalfUp(Min(100 * n, 2 * totalScore), n)

\* Category 3 scoring an available 0 when the platform exposes listings and
\* the seller has none (dataAvailability.recentListings is 'unavailable')
calculateListingCompletenessScore_EmptyIsZero(rl, sd) ==
    IF Len(rl) = 0 /\ sd.dataAvailability.recentListings = "unavailable"
    THEN [score |-> 0, available |-> TRUE,
          breakdown |-> [message |-> "No listings available"]]
    ELSE IF Len(rl) = 0
    THEN [score |-> Null, available |-> FALSE,
          breakdown |-> [message |->
              IF sd.dataAvailability.recentListings = "platform_unavailable"
              THEN "Listings not exposed by platform"
              ELSE "No listings available"]]
    ELSE LET listingsToEvaluate == Slice(rl, 5)
             scores == [i \in 1..Len(listingsToEvaluate) |->
                            ListingScore(listingsToEvaluate[i])]
             totalScore == SumSeq(scores)
         IN  [score |-> NormalizedListingScore(totalScore, Len(listingsToEvaluate)),
              available |-> TRUE,
              breakdown |-> [listingsEvaluated |-> Len(listingsToEvaluate),
                             evaluations |-> scores]]

\* Category 3: Listing Completeness
calculateListingCompletenessScore(rl, sd) ==
    IF Len(rl) = 0
    THEN [score |-> Null, available |-> FALSE,
          breakdown |-> [message |->
              IF sd.dataAvailability.recentListings = "platform_unavailable"
              THEN "Listings not exposed by platform"
              ELSE "No listings available"]]
    ELSE LET listingsToEvaluate == Slice(rl, 5)
             scores == [i \in 1..Len(listingsToEvaluate) |->
                            ListingScore(listingsToEvaluate[i])]
             totalScore == SumSeq(scores)
         IN  [score |-> NormalizedListingScore(totalScore, Len(listingsToEvaluate)),
              available |-> TRUE,
              breakdown |-> [listingsEvaluated |-> Len(listingsToEvaluate),
                             evaluations |-> scores]]

\* parseInt of the lastSeen value; NaN for a text that starts with no digit
NaN == 0 - 2
parseInt(s) ==
    CASE s = "5" -> 5
      [] s = "7" -> 7
      [] s = "20" -> 20
      [] s = "30" -> 30
      [] s = "45" -> 45
      [] s = "60" -> 60
      [] s = "90" -> 90
      [] OTHER -> NaN

\* days <= k in JavaScript: false when days is NaN
LessEq(days, k) == days # NaN /\ days <= k

\* Category 4 with the 60-day tier tested before the 30-day tier
calculateActivityRecencyScore_TierOrder(sd, rl) ==
    LET lastSeenDays == sd.lastSeen
        days == parseInt(lastSeenDays)
    IN  IF lastSeenDays # Undefined
        THEN IF LessEq(days, 7)
             THEN [score |-> 100, available |-> TRUE,
                   breakdown |-> [lastSeenDays |-> days, category |-> "Very Active"]]
             ELSE IF LessEq(days, 60)
             THEN [score |-> 40, available |-> TRUE,
                   breakdown |-> [lastSeenDays |-> days, category |-> "Moderately Active"]]
             ELSE [score |-> 10, available |-> TRUE,
                   breakdown |-> [lastSeenDays |-> days, category |-> "Inactive"]]
        ELSE IF Len(rl) > 0
        THEN [score |-> 50, available |-> TRUE,
              breakdown |-> [message |-> "Has active listings", listings |-> Len(rl)]]
        ELSE [score |-> Null, available |-> FALSE,
              breakdown |-> [message |-> "Activity data not available"]]

\* Category 4: Activity & Recency
calculateActivityRecencyScore(sd, rl) ==
    LET lastSeenDays == sd.lastSeen
        days == parseInt(lastSeenDays)
    IN  IF lastSeenDays # Undefined
        THEN IF LessEq(days, 7)
             THEN [score |-> 100, available |-> TRUE,
                   breakdown |-> [lastSeenDays |-> days, category |-> "Very Active"]]
             ELSE IF LessEq(days, 30)
             THEN [score |-> 70, available |-> TRUE,
                   breakdown |-> [lastSeenDays |-> days, category |-> "Active"]]
             ELSE IF LessEq(days, 60)
             THEN [score |-> 40, available |-> TRUE,
                   breakdown |-> [lastSeenDays |-> days, category |-> "Moderately Active"]]
             ELSE [score |-> 10, available |-> TRUE,
                   breakdown |-> [lastSeenDays |-> days, category |-> "Inactive"]]
        ELSE IF Len(rl) > 0
        THEN [score |-> 50, available |-> TRUE,
              breakdown |-> [message |-> "Has active listings", listings |-> Len(rl)]]
        ELSE [score |-> Null, available |-> FALSE,
              breakdown |-> [message |->
                  IF sd.dataAvailability.recentListings = "platform_unavailable"
                  THEN "Platform does not expose activity signals"
                  ELSE "Activity data not available"]]

\* Category 5 with a zero response rate scored as the lowest tier
calculateEngagementScore_ZeroIsLow(sd) ==
    LET responseRate == sd.responseRate
    IN  [score |-> IF responseRate >= 90 THEN 100
                   ELSE IF responseRate >= 80 THEN 80
                   ELSE IF responseRate >= 60 THEN 60
                   ELSE 30,
         available |-> TRUE,
         breakdown |-> [responseRate |-> responseRate]]

\* Category 5: Engagement
calculateEngagementScore(sd) ==
    LET responseRate == sd.responseRate
    IN  IF responseRate = 0
        THEN [score |-> Null, available |-> FALSE,
              breakdown |-> [message |-> "Response rate not available"]]
        ELSE [score |-> IF responseRate >= 90 THEN 100
                        ELSE IF responseRate >= 80 THEN 80
                        ELSE IF responseRate >= 60 THEN 60
                        ELSE 30,
              available |-> TRUE,
              breakdown |-> [responseRate |-> responseRate]]

\* Category 6 with net flags weighing as much as net endorsements
calculateCommunityFeedbackScore_Symmetric(sd, vf) ==
    LET totalReviews == sd.totalReviews
        base == IF totalReviews >= 10 \/ sd.avgRating10 >= 45 THEN 100
                ELSE IF totalReviews >= 5 THEN 70
                ELSE IF totalReviews >= 1 THEN 40
                ELSE 0
        netFeedback == vf.endorsements - vf.flags
        score == IF vf.isNull THEN base
                 ELSE IF netFeedback > 0 THEN Min(100, base + netFeedback * 5)
                 ELSE IF netFeedback < 0 THEN Max(0, base + netFeedback * 5)
                 ELSE base
    IN  IF totalReviews = 0 /\ vf.isNull
        THEN [score |-> Null, available |-> FALSE,
              breakdown |-> [message |-> "No feedback available"]]
        ELSE [score |-> Min(100, Max(0, score)), available |-> TRUE,
              breakdown |-> [marketplaceReviews |-> totalReviews]]

\* Category 6: Community Feedback
calculateCommunityFeedbackScore(sd, vf) ==
    LET totalReviews == sd.totalReviews
        avgRating10 == sd.avgRating10
        base == IF totalReviews >= 10 \/ avgRating10 >= 45 THEN 100
                ELSE IF totalReviews >= 5 THEN 70
                ELSE IF totalReviews >= 1 THEN 40
                ELSE 0
        endorsements == vf.endorsements
        flags == vf.flags
        netFeedback == endorsements - flags
        score == IF vf.isNull THEN base
                 ELSE IF netFeedback > 0 THEN Min(100, base + netFeedback * 5)
                 ELSE IF netFeedback < 0 THEN Max(0, base + netFeedback * 10)
                 ELSE base
    IN  IF totalReviews = 0 /\ vf.isNull
        THEN [score |-> Null, available |-> FALSE,
              breakdown |-> [message |-> "No feedback available"]]
        ELSE [score |-> Min(100, Max(0, score)), available |-> TRUE,
              breakdown |->
                  IF vf.isNull
                  THEN [marketplaceReviews |-> totalReviews,
                        averageRating |-> avgRating10]
                  ELSE [marketplaceReviews |-> totalReviews,
                        averageRating |-> avgRating10,
                        veribleEndorsements |-> endorsements,
                        veribleFlags |-> flags,
                        netFeedback |-> netFeedback]]

\* the penalties table of the red-flag scorer
penalties ==
    [urgent |-> 15, needMoneyAsap |-> 15, cashOnly |-> 20,
     firstComeFirstServe |-> 10, offPlatformContact |-> 20,
     allCapsTitle |-> 5, excessEmojis |-> 5]

\* the alternatives of the five phrase-family regular expressions
UrgentRe == {"urgent", "asap", "immediate", "hurry"}
NeedMoneyRe == {"need money", "bills", "must sell", "quick sale", "fast sale"}
CashOnlyRe == {"cash only", "payment first", "no questions"}
FirstComeRe == {"first come", "first serve"}
OffPlatformRe ==
    {"whatsapp", "telegram", "contact me at", "call.*\\d{10}", "text.*\\d{10}"}

\* redFlags.push(entry) when the test holds
PushIf(cond, entry) == IF cond THEN <<entry>> ELSE <<>>

\* the red flags of one listing, reported under the 0-based index
ListingRedFlags_ZeroBased(listing, idx) ==
    LET title == IF listing.title = Undefined THEN "" ELSE listing.title
        description == IF listing.description = Undefined THEN ""
                       ELSE listing.description
        titleLower == toLowerCase(title)
        descLower == toLowerCase(description)
        emojiCount == EmojiCount(titleLower) + EmojiCount(descLower)
    IN     PushIf(test(UrgentRe, titleLower, descLower),
                  [listing |-> idx, flag |-> "Urgent language",
                   penalty |-> penalties.urgent])
        \o PushIf(test(NeedMoneyRe, titleLower, descLower),
                  [listing |-> idx, flag |-> "Financial pressure language",
                   penalty |-> penalties.needMoneyAsap])
        \o PushIf(test(CashOnlyRe, titleLower, descLower),
                  [listing |-> idx, flag |-> "Cash only / suspicious payment",
                   penalty |-> penalties.cashOnly])
        \o PushIf(test(FirstComeRe, titleLower, descLower),
                  [listing |-> idx, flag |-> "First come first serve",
                   penalty |-> penalties.firstComeFirstServe])
        \o PushIf(test(OffPlatformRe, titleLower, descLower),
                  [listing |-> idx, flag |-> "Off-platform contact attempt",
                   penalty |-> penalties.offPlatformContact])
        \o PushIf(/\ title # ""
                  /\ title = toUpperCase(title)
                  /\ length(title) > 5,
                  [listing |-> idx, flag |-> "ALL-CAPS title",
                   penalty |-> penalties.allCapsTitle])
        \o PushIf(emojiCount > 3,
                  [listing |-> idx, flag |-> "Excessive emojis",
                   count |-> emojiCount, penalty |-> penalties.excessEmojis])

\* the red flags one listing adds (the body of the forEach), idx 0-based
ListingRedFlags(listing, idx) ==
    LET title == IF listing.title = Undefined THEN "" ELSE listing.title
        description == IF listing.description = Undefined THEN ""
                       ELSE listing.description
        titleLower == toLowerCase(title)
        descLower == toLowerCase(description)
        emojiCount == EmojiCount(titleLower) + EmojiCount(descLower)
    IN     PushIf(test(UrgentRe, titleLower, descLower),
                  [listing |-> idx + 1, flag |-> "Urgent language",
                   penalty |-> penalties.urgent])
        \o PushIf(test(NeedMoneyRe, titleLower, descLower),
                  [listing |-> idx + 1, flag |-> "Financial pressure language",
                   penalty |-> penalties.needMoneyAsap])
        \o PushIf(test(CashOnlyRe, titleLower, descLower),
                  [listing |-> idx + 1, flag |-> "Cash only / suspicious payment",
                   penalty |-> penalties.cashOnly])
        \o PushIf(test(FirstComeRe, titleLower, descLower),
                  [listing |-> idx + 1, flag |-> "First come first serve",
                   penalty |-> penalties.firstComeFirstServe])
        \o PushIf(test(OffPlatformRe, titleLower, descLower),
                  [listing |-> idx + 1, flag |-> "Off-platform contact attempt",
                   penalty |-> penalties.offPlatformContact])
        \o PushIf(/\ title # ""
                  /\ title = toUpperCase(title)
                  /\ length(title) > 5,
                  [listing |-> idx + 1, flag |-> "ALL-CAPS title",
                   penalty |-> penalties.allCapsTitle])
        \o PushIf(emojiCount > 3,
                  [listing |-> idx + 1, flag |-> "Excessive emojis",
                   count |-> emojiCount, penalty |-> penalties.excessEmojis])

\* Category 7 without the floor at 0
calculateBehavioralRedFlagsScore_NoFloor(rl, sd) ==
    IF Len(rl) = 0
    THEN [score |-> Null, available |-> FALSE,
          breakdown |-> [message |-> "No listings to analyze"]]
    ELSE LET redFlags == FlattenSeq([i \in 1..Len(rl) |->
                                        ListingRedFlags(rl[i], i - 1)])
             score == 100 - SumSeq([j \in 1..Len(redFlags) |-> redFlags[j].penalty])
         IN  [score |-> score, available |-> TRUE,
              breakdown |-> [startScore |-> 100,
                             redFlagsFound |-> Len(redFlags),
                             redFlags |-> redFlags,
                             finalScore |-> score]]

\* Category 7: Behavioral Red Flags
calculateBehavioralRedFlagsScore(rl, sd) ==
    IF Len(rl) = 0
    THEN [score |-> Null, available |-> FALSE,
          breakdown |-> [message |->
              IF sd.dataAvailability.recentListings = "platform_unavailable"
              THEN "Platform does not expose listings for behavioral analysis"
              ELSE "No listings to analyze"]]
    ELSE LET redFlags == FlattenSeq([i \in 1..Len(rl) |->
                                        ListingRedFlags(rl[i], i - 1)])
             score == 100 - SumSeq([j \in 1..Len(redFlags) |-> redFlags[j].penalty])
         IN  [score |-> Max(0, score), available |-> TRUE,
              breakdown |-> [startScore |-> 100,
                             redFlagsFound |-> Len(redFlags),
                             redFlags |-> redFlags,
                             finalScore |-> Max(0, score)]]

\* number of the categories map's entries that are available
AvailableCount(cats) == Cardinality({k \in DOMAIN cats : cats[k].available})

\* Object.keys(categories).filter(key => !categories[key].available)
MissingCategories(cats) ==
    SelectSeq(CategoryKeys, LAMBDA k : k \in DOMAIN cats /\ ~cats[k].available)

\* calculateConfidence with the confidence taken from the coverage already
\* rounded to two decimals
calculateConfidence_RoundedCoverage(sd, rl, cats) ==
    LET totalCategories == Cardinality(DOMAIN cats)
        availableCategories == AvailableCount(cats)
        lastSeenDays == sd.lastSeen
        days == parseInt(lastSeenDays)
        \* recency and consistency in tenths
        recency == IF lastSeenDays # Undefined
                   THEN IF LessEq(days, 30) THEN 10
                        ELSE IF LessEq(days, 60) THEN 6
                        ELSE 3
                   ELSE IF Len(rl) > 0 THEN 6
                   ELSE 3
        bio == IF sd.bio = Undefined THEN "" ELSE sd.bio
        hasBusinessIndicators == \/ includes(toLowerCase(bio), "we supply")
                                 \/ includes(toLowerCase(bio), "we sell")
        hasBasicIdentity == cats.verificationIdentity.score > 0
        consistency == IF hasBusinessIndicators /\ ~hasBasicIdentity THEN 7 ELSE 10
    IN  \* confidence = 0.5 * coverage + 0.3 * recency + 0.2 * consistency
        [confidence |-> RoundHalfUp(RoundHalfUp(100 * availableCategories,
                                                totalCategories)
                                    + 2 * (3 * recency + 2 * consistency), 2),
         coverage |-> RoundHalfUp(100 * availableCategories, totalCategories),
         recency |-> 10 * recency,
         consistency |-> 10 * consistency,
         availableCategories |-> availableCategories,
         totalCategories |-> totalCategories,
         missingCategories |-> MissingCategories(cats)]

\* calculateConfidence: coverage, recency, consistency and confidence
calculateConfidence(sd, rl, cats) ==
    LET totalCategories == Cardinality(DOMAIN cats)
        availableCategories == AvailableCount(cats)
        lastSeenDays == sd.lastSeen
        days == parseInt(lastSeenDays)
        \* recency and consistency in tenths
        recency == IF lastSeenDays # Undefined
                   THEN IF LessEq(days, 30) THEN 10
                        ELSE IF LessEq(days, 60) THEN 6
                        ELSE 3
                   ELSE IF Len(rl) > 0 THEN 6
                   ELSE 3
        bio == IF sd.bio = Undefined THEN "" ELSE sd.bio
        hasBusinessIndicators == \/ includes(toLowerCase(bio), "we supply")
                                 \/ includes(toLowerCase(bio), "we sell")
        hasBasicIdentity == cats.verificationIdentity.score > 0
        consistency == IF hasBusinessIndicators /\ ~hasBasicIdentity THEN 7 ELSE 10
    IN  \* confidence = 0.5 * coverage + 0.3 * recency + 0.2 * consistency
        [confidence |-> RoundHalfUp(50 * availableCategories
                                    + totalCategories * (3 * recency + 2 * consistency),
                                    totalCategories),
         coverage |-> RoundHalfUp(100 * availableCategories, totalCategories),
         recency |-> 10 * recency,
         consistency |-> 10 * consistency,
         availableCategories |-> availableCategories,
         totalCategories |-> totalCategories,
         missingCategories |-> MissingCategories(cats)]

\* the gate's test with the two thresholds joined by "and"
InsufficientData_Both(confidenceMetrics) ==
    confidenceMetrics.confidence < 35 /\ confidenceMetrics.coverage < 40

\* the test of the insufficient-data gate
InsufficientData(confidenceMetrics) ==
    confidenceMetrics.confidence < 35 \/ confidenceMetrics.coverage < 40

\* categories[key].available && categories[key].score !== null
Scored(cats, key) == cats[key].available /\ cats[key].score # Null

\* Math.round(normalizedWeight * 100) for fixed weight w and available weight
\* sum totalWeight: the quotient 100 * w / totalWeight in doubles.  Over all
\* 127 non-empty category sets the double rounds as the exact value does,
\* but for 0.15 / 0.40 * 100, which evaluates to 37.49999999999999
NormalizedWeight(w, totalWeight) ==
    IF w = 15 /\ totalWeight = 40 THEN 37
    ELSE RoundHalfUp(100 * w, totalWeight)

\* calculateFinalScore without the renormalization: the weighted sum is taken
\* under the fixed weights, as if every category were available
calculateFinalScore_Fixed(cats, tieDown) ==
    LET totalWeight ==
            SumSeq([i \in 1..Len(CategoryKeys) |->
                       IF Scored(cats, CategoryKeys[i])
                       THEN categoryWeights[CategoryKeys[i]] ELSE 0])
        weightedSum ==
            SumSeq([i \in 1..Len(CategoryKeys) |->
                       IF Scored(cats, CategoryKeys[i])
                       THEN cats[CategoryKeys[i]].score * categoryWeights[CategoryKeys[i]]
                       ELSE 0])
    IN  IF totalWeight = 0
        THEN [finalScore |-> 0, normalizedWeights |-> [k \in {} |-> 0]]
        ELSE [finalScore |-> MathRound(weightedSum, 100, tieDown),
              normalizedWeights |->
                  [k \in DOMAIN cats |->
                      IF Scored(cats, k) THEN categoryWeights[k] ELSE 0]]

\* calculateFinalScore: reweighting over the available categories
calculateFinalScore(cats, tieDown) ==
    LET totalWeight ==
            SumSeq([i \in 1..Len(CategoryKeys) |->
                       IF Scored(cats, CategoryKeys[i])
                       THEN categoryWeights[CategoryKeys[i]] ELSE 0])
        \* weightedSum * totalWeight
        weightedSum ==
            SumSeq([i \in 1..Len(CategoryKeys) |->
                       IF Scored(cats, CategoryKeys[i])
                       THEN cats[CategoryKeys[i]].score * categoryWeights[CategoryKeys[i]]
                       ELSE 0])
    IN  IF totalWeight = 0
        THEN [finalScore |-> 0, normalizedWeights |-> [k \in {} |-> 0]]
        ELSE [finalScore |-> MathRound(weightedSum, totalWeight, tieDown),
              normalizedWeights |->
                  [k \in DOMAIN cats |->
                      IF Scored(cats, k)
                      THEN NormalizedWeight(categoryWeights[k], totalWeight)
                      ELSE 0]]

\* generateRecommendations pushing the red-flag warning before the request
\* for verification
generateRecommendations_RedFlagsFirst(finalScore, cats) ==
       << IF finalScore >= 80
          THEN [type |-> "positive", priority |-> "high",
                action |-> "Safe to Purchase"]
          ELSE IF finalScore >= 60
          THEN [type |-> "positive", priority |-> "medium",
                action |-> "Consider for Purchase"]
          ELSE IF finalScore >= 40
          THEN [type |-> "warning", priority |-> "high",
                action |-> "Review Carefully Before Purchase"]
          ELSE [type |-> "negative", priority |-> "critical",
                action |-> "Avoid or Request Additional Verification"] >>
    \o PushIf(cats.behavioralRedFlags.available
              /\ cats.behavioralRedFlags.score < 70,
              [type |-> "warning", priority |-> "critical",
               action |-> "Exercise extreme caution or avoid"])
    \o PushIf(cats.verificationIdentity.available
              /\ cats.verificationIdentity.score < 50,
              [type |-> "warning", priority |-> "high",
               action |-> "Request verification before proceeding"])
    \o PushIf(cats.communityFeedback.available
              /\ cats.communityFeedback.score < 40,
              [type |-> "warning", priority |-> "medium",
               action |-> "Check reviews carefully"])

\* generateRecommendations: the overall one, then the category-specific ones
generateRecommendations(finalScore, cats) ==
       << IF finalScore >= 80
          THEN [type |-> "positive", priority |-> "high",
                action |-> "Safe to Purchase"]
          ELSE IF finalScore >= 60
          THEN [type |-> "positive", priority |-> "medium",
                action |-> "Consider for Purchase"]
          ELSE IF finalScore >= 40
          THEN [type |-> "warning", priority |-> "high",
                action |-> "Review Carefully Before Purchase"]
          ELSE [type |-> "negative", priority |-> "critical",
                action |-> "Avoid or Request Additional Verification"] >>
    \o PushIf(cats.verificationIdentity.available
              /\ cats.verificationIdentity.score < 50,
              [type |-> "warning", priority |-> "high",
               action |-> "Request verification before proceeding"])
    \o PushIf(cats.behavioralRedFlags.available
              /\ cats.behavioralRedFlags.score < 70,
              [type |-> "warning", priority |-> "critical",
               action |-> "Exercise extreme caution or avoid"])
    \o PushIf(cats.communityFeedback.available
              /\ cats.communityFeedback.score < 40,
              [type |-> "warning", priority |-> "medium",
               action |-> "Check reviews carefully"])

\* determineTrustLevel with 'Poor' starting at 25
determineTrustLevel_PoorFrom25(score) ==
    IF score >= 80 THEN "Excellent"
    ELSE IF score >= 60 THEN "Good"
    ELSE IF score >= 40 THEN "Fair"
    ELSE IF score >= 25 THEN "Poor"
    ELSE "Very Poor"

\* determineTrustLevel
determineTrustLevel(score) ==
    IF score >= 80 THEN "Excellent"
    ELSE IF score >= 60 THEN "Good"
    ELSE IF score >= 40 THEN "Fair"
    ELSE IF score >= 20 THEN "Poor"
    ELSE "Very Poor"

\* getConfidenceLabel with 'Medium' starting at 0.50
getConfidenceLabel_MediumFrom50(confidence) ==
    IF confidence >= 80 THEN "Very High"
    ELSE IF confidence >= 60 THEN "High"
    ELSE IF confidence >= 50 THEN "Medium"
    ELSE IF confidence >= 20 THEN "Low"
    ELSE "Very Low"

\* getConfidenceLabel, confidence in hundredths
getConfidenceLabel(confidence) ==
    IF confidence >= 80 THEN "Very High"
    ELSE IF confidence >= 60 THEN "High"
    ELSE IF confidence >= 40 THEN "Medium"
    ELSE IF confidence >= 20 THEN "Low"
    ELSE "Very Low"

\* identifyRiskFactors comparing the Account Maturity score without testing
\* that the category is available (a null score compares as 0)
identifyRiskFactors_IgnoresAvailability(cats) ==
       PushIf(cats.verificationIdentity.available
              /\ cats.verificationIdentity.score < 30,
              [category |-> "Verification & Identity", severity |-> "high"])
    \o PushIf(cats.accountMaturity.score < 40,
              [category |-> "Account Maturity", severity |-> "medium"])
    \o PushIf(cats.behavioralRedFlags.available
              /\ cats.behavioralRedFlags.score < 70,
              [category |-> "Behavioral Red Flags", severity |-> "critical"])
    \o PushIf(cats.communityFeedback.available
              /\ cats.communityFeedback.score < 40,
              [category |-> "Community Feedback", severity |-> "medium"])

\* identifyRiskFactors
identifyRiskFactors(cats) ==
       PushIf(cats.verificationIdentity.available
              /\ cats.verificationIdentity.score < 30,
              [category |-> "Verification & Identity", severity |-> "high"])
    \o PushIf(cats.accountMaturity.available
              /\ cats.accountMaturity.score < 40,
              [category |-> "Account Maturity", severity |-> "medium"])
    \o PushIf(cats.behavioralRedFlags.available
              /\ cats.behavioralRedFlags.score < 70,
              [category |-> "Behavioral Red Flags", severity |-> "critical"])
    \o PushIf(cats.communityFeedback.available
              /\ cats.communityFeedback.score < 40,
              [category |-> "Community Feedback", severity |-> "medium"])

\* identifyStrengths
identifyStrengths(cats) ==
    FlattenSeq([i \in 1..Len(CategoryKeys) |->
        PushIf(cats[CategoryKeys[i]].available /\ cats[CategoryKeys[i]].score >= 80,
               [category |-> CategoryKeys[i], score |-> cats[CategoryKeys[i]].score])])

\* the categories map built with Activity & Recency not given the listings
ScoreCategories_RecencyWithoutListings(sd, rl, vf) ==
    [verificationIdentity |-> calculateVerificationIdentityScore(sd),
     accountMaturity |-> calculateAccountMaturityScore(sd),
     listingCompleteness |-> calculateListingCompletenessScore(rl, sd),
     activityRecency |-> calculateActivityRecencyScore(sd, <<>>),
     engagement |-> calculateEngagementScore(sd),
     communityFeedback |-> calculateCommunityFeedbackScore(sd, vf),
     behavioralRedFlags |-> calculateBehavioralRedFlagsScore(rl, sd)]

\* the categories map built at the head of calculatePulseScore
ScoreCategories(sd, rl, vf) ==
    [verificationIdentity |-> calculateVerificationIdentityScore(sd),
     accountMaturity |-> calculateAccountMaturityScore(sd),
     listingCompleteness |-> calculateListingCompletenessScore(rl, sd),
     activityRecency |-> calculateActivityRecencyScore(sd, rl),
     engagement |-> calculateEngagementScore(sd),
     communityFeedback |-> calculateCommunityFeedbackScore(sd, vf),
     behavioralRedFlags |-> calculateBehavioralRedFlagsScore(rl, sd)]

\* the rejection object carrying a zero score
InsufficientDataResult_ZeroScore(confidenceMetrics) ==
    [status |-> "insufficient_data",
     message |-> "Not Enough Data",
     pulseScore |-> 0,
     confidence |-> confidenceMetrics.confidence,
     coverage |-> confidenceMetrics.coverage,
     availableCategories |-> confidenceMetrics.availableCategories,
     missingCategories |-> confidenceMetrics.missingCategories,
     recommendations |->
         << [type |-> "warning",
             message |-> "Insufficient data to generate reliable trust score",
             action |-> "More seller activity or profile information needed"] >>]

\* the object returned when the gate rejects
InsufficientDataResult(confidenceMetrics) ==
    [status |-> "insufficient_data",
     message |-> "Not Enough Data",
     confidence |-> confidenceMetrics.confidence,
     coverage |-> confidenceMetrics.coverage,
     availableCategories |-> confidenceMetrics.availableCategories,
     missingCategories |-> confidenceMetrics.missingCategories,
     recommendations |->
         << [type |-> "warning",
             message |-> "Insufficient data to generate reliable trust score",
             action |-> "More seller activity or profile information needed"] >>]

\* the object returned when the gate lets the seller through
SuccessResult(cats, confidenceMetrics, tieDown) ==
    LET final == calculateFinalScore(cats, tieDown)
    IN  [status |-> "success",
         pulseScore |-> final.finalScore,
         confidence |-> confidenceMetrics.confidence,
         confidenceLevel |-> getConfidenceLabel(confidenceMetrics.confidence),
         trustLevel |-> determineTrustLevel(final.finalScore),
         categories |-> cats,
         categoryWeights |-> final.normalizedWeights,
         confidenceMetrics |-> confidenceMetrics,
         recommendations |-> generateRecommendations(final.finalScore, cats),
         riskFactors |-> identifyRiskFactors(cats),
         strengthAreas |-> identifyStrengths(cats)]

\* what calculatePulseScore returns once the categories map is built: the
\* confidence metrics, the gate, and past the gate the aggregation and the
\* synthesis
ScoringResult(sd, rl, cats, tieDown) ==
    LET confidenceMetrics == calculateConfidence(sd, rl, cats)
    IN  IF InsufficientData(confidenceMetrics)
        THEN InsufficientDataResult(confidenceMetrics)
        ELSE SuccessResult(cats, confidenceMetrics, tieDown)

\* the sub-objects read with a plain property access if the location test
\* read sellerData.profileData.location without the ?. before it
UnguardedParts_Location == {"profileData"}

\* the sub-objects of sellerData the scorers and calculateConfidence
\* dereference with a plain property access: none, every read goes through
\* ?. , through "|| {}" or behind an && on the sub-object
UnguardedParts == {}

\* what calculatePulseScore settles with: the object it returns, or the Error
\* its catch block rethrows when sellerData is null (TypeError on the first
\* property read of the first scorer)
PulseScoreOutcome(sd, rl, vf, tieDown) ==
    IF sd = NullSeller \/ UnguardedParts \ sd.parts # {}
    THEN [outcome |-> "thrown",
          value |-> [status |-> "error",
                     message |-> "Failed to calculate pulse score"]]
    ELSE [outcome |-> "returned",
          value |-> ScoringResult(sd, rl, ScoreCategories(sd, rl, vf), tieDown)]

-----------------------------------------------------------------------------
(* Inputs *)

\* sellerData.dataAvailability when the extractor sets none ({} in the code)
NoAvailability ==
    [profilePicture |-> Undefined, location |-> Undefined,
     recentListings |-> Undefined]

AvailabilityStates == {Undefined, "available", "unavailable", "platform_unavailable"}

\* the optional sub-objects of sellerData
SellerParts == {"profileData", "marketplaceData", "dataAvailability"}

\* a seller nothing is known about: every sub-object is there and is empty
BlankSeller ==
    [parts |-> SellerParts,
     verificationStatus |-> Undefined, profilePicture |-> Undefined,
     location |-> Undefined, bio |-> Undefined, accountAge |-> 0,
     lastSeen |-> Undefined, responseRate |-> 0, totalReviews |-> 0,
     avgRating10 |-> 0, dataAvailability |-> NoAvailability]

\* what the engine reads from a sellerData object that lacks the sub-objects
\* in missing: sellerData.profileData?.x and sellerData.marketplaceData?.x
\* are undefined, "|| 0" turns an undefined number into 0 and
\* "sellerData.dataAvailability || {}" is the empty map
WithoutParts(sd, missing) ==
    LET noProfile == "profileData" \in missing
        noMarket == "marketplaceData" \in missing
    IN  [parts |-> sd.parts \ missing,
         profilePicture |-> IF noProfile THEN Undefined ELSE sd.profilePicture,
         location |-> IF noProfile THEN Undefined ELSE sd.location,
         bio |-> IF noProfile THEN Undefined ELSE sd.bio,
         verificationStatus |->
             IF noMarket THEN Undefined ELSE sd.verificationStatus,
         accountAge |-> IF noMarket THEN 0 ELSE sd.accountAge,
         lastSeen |-> IF noMarket THEN Undefined ELSE sd.lastSeen,
         responseRate |-> IF noMarket THEN 0 ELSE sd.responseRate,
         totalReviews |-> IF noMarket THEN 0 ELSE sd.totalReviews,
         avgRating10 |-> IF noMarket THEN 0 ELSE sd.avgRating10,
         dataAvailability |-> IF "dataAvailability" \in missing
                              THEN NoAvailability ELSE sd.dataAvailability]

\* a veribleFeedback object holding e endorsements and f flags
Feedback(e, f) == [isNull |-> FALSE, endorsements |-> e, flags |-> f]

\* recent listings as the extractors build them
CleanListing ==
    [title |-> "iPhone 12", price |-> "250000", hasPrice |-> "true",
     imageCount |-> 3,
     description |-> "Clean phone, barely used, long description",
     descriptionLength |-> 120]
ScenarioListing ==
    [title |-> "iPhone 12", price |-> "", hasPrice |-> "false",
     imageCount |-> 1,
     description |-> "URGENT, CASH ONLY, message me on WhatsApp",
     descriptionLength |-> 41]
PressureListing ==
    [title |-> "URGENT SALE", price |-> "500", hasPrice |-> Undefined,
     imageCount |-> 0,
     description |-> "Must sell, first come first serve",
     descriptionLength |-> 33]
EmojiListing ==
    [title |-> "Hot deal with four emoji", price |-> Undefined,
     hasPrice |-> Undefined, imageCount |-> 0, description |-> Undefined,
     descriptionLength |-> 0]
BlankListing ==
    [title |-> "", price |-> "", hasPrice |-> "false", imageCount |-> 0,
     description |-> "", descriptionLength |-> 0]

ListingKinds ==
    {CleanListing, ScenarioListing, PressureListing, EmojiListing, BlankListing}

\* the listings calculatePulseScore is exercised with
ScoredListingKinds == {CleanListing, ScenarioListing, BlankListing}

\* the sellers calculatePulseScore is exercised with
SellerDatas ==
    {[parts |-> SellerParts,
      verificationStatus |-> v, profilePicture |-> p.profilePicture,
      location |-> p.location, bio |-> p.bio, accountAge |-> a,
      lastSeen |-> ls, responseRate |-> rr,
      totalReviews |-> rv.totalReviews, avgRating10 |-> rv.avgRating10,
      dataAvailability |-> NoAvailability] :
        v \in {"unverified", "Phone-Verified", "id-verified"},
        p \in {[profilePicture |-> "", location |-> "Not specified", bio |-> ""],
               [profilePicture |-> "", location |-> "Not specified",
                bio |-> "We sell phones and accessories"],
               [profilePicture |-> "photo.jpg", location |-> "Lagos", bio |-> ""]},
        a \in {0, 2, 18},
        ls \in {Undefined, "20", "45", "Unknown"},
        rr \in {0, 92},
        rv \in {[totalReviews |-> 0, avgRating10 |-> 0],
                [totalReviews |-> 1, avgRating10 |-> 32],
                [totalReviews |-> 85, avgRating10 |-> 47]}}

\* the veribleFeedback arguments calculatePulseScore is exercised with
ScoredFeedbacks ==
    {NoFeedback, Feedback(0, 0), Feedback(0, 2), Feedback(2, 5)}

\* the argument objects of a call
Args(sd, rl, vf) ==
    [sellerData |-> sd, recentListings |-> rl, veribleFeedback |-> vf]

\* no call in progress
NoArgs == Args(BlankSeller, <<>>, NoFeedback)

\* the caller has kept no call
NoCall ==
    [args |-> NoArgs,
     result |-> [outcome |-> "none", value |-> [status |-> "none"]],
     between |-> FALSE]

\* the state between two calls
Idle ==
    /\ op = "idle"
    /\ sellerData = BlankSeller
    /\ recentListings = <<>>
    /\ veribleFeedback = NoFeedback
    /\ categories = <<>>
    /\ result = [outcome |-> "none", value |-> [status |-> "none"]]
    /\ args = NoArgs

\* the service the module exports, before its first call: the constructor
\* has run, the caller has kept no call; the platform's arithmetic is fixed
Constructed ==
    /\ categoryWeights = constructor.categoryWeights
    /\ tiesRoundDown \in BOOLEAN
    /\ earlier = NoCall

-----------------------------------------------------------------------------
(* The engine as its callers use it *)

Init == Idle /\ Constructed

\* the array after a call that took its listings off the array with shift()
recentListingsAfter_Shifted(rl) == IF rl = <<>> THEN rl ELSE Tail(rl)

\* the caller's recentListings array after the call: slice(0, 5) copies and
\* the two forEach loops read; nothing is assigned into the array, into a
\* listing, into sellerData or into veribleFeedback
recentListingsAfter(rl) == rl

\* one call of calculatePulseScore that writes the renormalized weights of a
\* success back into this.categoryWeights
calculatePulseScore_WritesWeights(sd, rl, vf) ==
    /\ op' = "calculatePulseScore"
    /\ args' = Args(sd, rl, vf)
    /\ sellerData' = sd
    /\ recentListings' = recentListingsAfter(rl)
    /\ veribleFeedback' = vf
    /\ categories' = IF sd = NullSeller THEN <<>>
                     ELSE ScoreCategories(sd, rl, vf)
    /\ result' = PulseScoreOutcome(sd, rl, vf, tiesRoundDown)
    /\ categoryWeights' =
           IF result'.outcome = "returned" /\ result'.value.status = "success"
           THEN result'.value.categoryWeights ELSE categoryWeights
    /\ UNCHANGED <<tiesRoundDown, earlier>>

\* one call of calculatePulseScore: the objects passed are read, never
\* written, and so is this.categoryWeights
calculatePulseScore(sd, rl, vf) ==
    /\ op' = "calculatePulseScore"
    /\ args' = Args(sd, rl, vf)
    /\ sellerData' = sd
    /\ recentListings' = recentListingsAfter(rl)
    /\ veribleFeedback' = vf
    /\ categories' = IF sd = NullSeller THEN <<>>
                     ELSE ScoreCategories(sd, rl, vf)
    /\ result' = PulseScoreOutcome(sd, rl, vf, tiesRoundDown)
    /\ UNCHANGED <<categoryWeights, tiesRoundDown, earlier>>

\* await pulseScoringService.calculatePulseScore(sellerData, recentListings,
\* veribleFeedback)
CalculatePulseScore ==
    /\ op = "idle"
    /\ \E sd \in SellerDatas \cup {NullSeller},
          rl \in SeqsUpTo(ScoredListingKinds, MaxScoredListings),
          vf \in ScoredFeedbacks :
            calculatePulseScore(sd, rl, vf)

\* the caller has consumed the result; the service keeps nothing of the
\* call.  A caller that has kept an earlier call notes whether a call with
\* other arguments has been made since
Return ==
    /\ op # "idle"
    /\ op' = "idle"
    /\ sellerData' = BlankSeller
    /\ recentListings' = <<>>
    /\ veribleFeedback' = NoFeedback
    /\ categories' = <<>>
    /\ result' = [outcome |-> "none", value |-> [status |-> "none"]]
    /\ args' = NoArgs
    /\ earlier' = IF earlier # NoCall /\ args # earlier.args
                  THEN [earlier EXCEPT !.between = TRUE] ELSE earlier
    /\ UNCHANGED <<categoryWeights, tiesRoundDown>>

Next == CalculatePulseScore \/ Return

Spec == Init /\ [][Next]_vars

-----------------------------------------------------------------------------
(* The methods of the service called one at a time *)

\* what a method call leaves: its arguments, the map it worked on, its value
Called(name, sd, rl, vf, cats, value) ==
    /\ op' = name
    /\ sellerData' = sd
    /\ recentListings' = rl
    /\ veribleFeedback' = vf
    /\ categories' = cats
    /\ result' = [outcome |-> "returned", value |-> value]
    /\ args' = Args(sd, rl, vf)
    /\ UNCHANGED <<categoryWeights, tiesRoundDown, earlier>>

CallVerificationIdentity ==
    /\ op = "idle"
    /\ \E v \in {Undefined, "", "unverified", "verified", "email-verified",
                 "Phone-Verified", "id-verified"},
          pic \in {Undefined, "", "photo.jpg"},
          loc \in {Undefined, "", "Not specified", "Lagos"},
          dp \in AvailabilityStates, dl \in AvailabilityStates :
           LET sd == [BlankSeller EXCEPT
                         !.verificationStatus = v, !.profilePicture = pic,
                         !.location = loc,
                         !.dataAvailability = [NoAvailability EXCEPT
                             !.profilePicture = dp, !.location = dl]]
               value == calculateVerificationIdentityScore(sd)
           IN  Called("calculateVerificationIdentityScore", sd, <<>>, NoFeedback,
                      "verificationIdentity" :> value, value)

CallAccountMaturity ==
    /\ op = "idle"
    /\ \E a \in {0, 1, 2, 3, 5, 6, 11, 12, 18},
          missing \in {{}, {"marketplaceData"}} :
           LET sd == WithoutParts([BlankSeller EXCEPT !.accountAge = a], missing)
               value == calculateAccountMaturityScore(sd)
           IN  Called("calculateAccountMaturityScore", sd, <<>>, NoFeedback,
                      "accountMaturity" :> value, value)

CallListingCompleteness ==
    /\ op = "idle"
    /\ \E rl \in SeqsUpTo(ListingKinds, MaxListings),
          dr \in AvailabilityStates :
           LET sd == [BlankSeller EXCEPT
                         !.dataAvailability = [NoAvailability EXCEPT
                             !.recentListings = dr]]
               value == calculateListingCompletenessScore(rl, sd)
           IN  /\ rl # <<>> => dr = Undefined
               /\ Called("calculateListingCompletenessScore", sd, rl, NoFeedback,
                      "listingCompleteness" :> value, value)

CallActivityRecency ==
    /\ op = "idle"
    /\ \E ls \in {Undefined, "5", "7", "20", "30", "45", "60", "90", "Unknown"},
          rl \in SeqsUpTo({CleanListing}, 1), dr \in AvailabilityStates :
           LET sd == [BlankSeller EXCEPT
                         !.lastSeen = ls,
                         !.dataAvailability = [NoAvailability EXCEPT
                             !.recentListings = dr]]
               value == calculateActivityRecencyScore(sd, rl)
           IN  Called("calculateActivityRecencyScore", sd, rl, NoFeedback,
                      "activityRecency" :> value, value)

CallEngagement ==
    /\ op = "idle"
    /\ \E rr \in {0, 1, 30, 59, 60, 79, 80, 89, 90, 92, 100},
          missing \in {{}, {"marketplaceData"}} :
           LET sd == WithoutParts([BlankSeller EXCEPT !.responseRate = rr], missing)
               value == calculateEngagementScore(sd)
           IN  Called("calculateEngagementScore", sd, <<>>, NoFeedback,
                      "engagement" :> value, value)

CallCommunityFeedback ==
    /\ op = "idle"
    /\ \E tr \in {0, 1, 4, 5, 9, 10, 85}, ar \in {0, 32, 44, 45, 47},
          vf \in {NoFeedback} \cup
                 {Feedback(e, f) : e \in 0..MaxFeedback, f \in 0..MaxFeedback} :
           LET sd == [BlankSeller EXCEPT !.totalReviews = tr, !.avgRating10 = ar]
               value == calculateCommunityFeedbackScore(sd, vf)
           IN  Called("calculateCommunityFeedbackScore", sd, <<>>, vf,
                      "communityFeedback" :> value, value)

CallBehavioralRedFlags ==
    /\ op = "idle"
    /\ \E rl \in SeqsUpTo(ListingKinds, MaxListings),
          dr \in AvailabilityStates :
           LET sd == [BlankSeller EXCEPT
                         !.dataAvailability = [NoAvailability EXCEPT
                             !.recentListings = dr]]
               value == calculateBehavioralRedFlagsScore(rl, sd)
           IN  /\ rl # <<>> => dr = Undefined
               /\ Called("calculateBehavioralRedFlagsScore", sd, rl, NoFeedback,
                      "behavioralRedFlags" :> value, value)

\* CategoryScores a caller of calculateConfidence / calculateFinalScore can
\* put in the categories map
AnyCategoryScores(scores) ==
    {[score |-> Null, available |-> FALSE]} \cup
    {[score |-> sc, available |-> TRUE] : sc \in scores}

AnyCategories(scores) == [CategoryKeySet -> AnyCategoryScores(scores)]

\* calculateConfidence followed by the gate's test on its value
CallCalculateConfidence ==
    /\ op = "idle"
    /\ \E cats \in AnyCategories({0, 100}),
          ls \in {Undefined, "20", "45", "90"},
          b \in {"", "We sell phones and accessories"},
          rl \in SeqsUpTo({CleanListing}, 1) :
           LET sd == [BlankSeller EXCEPT !.lastSeen = ls, !.bio = b]
               value == calculateConfidence(sd, rl, cats)
           IN  Called("calculateConfidence", sd, rl, NoFeedback, cats,
                      [confidenceMetrics |-> value,
                       insufficient |-> InsufficientData(value)])

\* the gate's test on a confidenceMetrics object holding any two-decimal
\* confidence and coverage around the two thresholds
TestGate ==
    /\ op = "idle"
    /\ \E confidence \in 30..55, coverage \in 30..55 :
           LET confidenceMetrics ==
                   [confidence |-> confidence, coverage |-> coverage]
           IN  Called("gate", BlankSeller, <<>>, NoFeedback, <<>>,
                      [confidenceMetrics |-> confidenceMetrics,
                       insufficient |-> InsufficientData(confidenceMetrics)])

CallCalculateFinalScore ==
    /\ op = "idle"
    /\ \E cats \in AnyCategories({30, 100}) :
           Called("calculateFinalScore", BlankSeller, <<>>, NoFeedback, cats,
                  calculateFinalScore(cats, tiesRoundDown))

ScorerNext ==
    \/ CallVerificationIdentity
    \/ CallAccountMaturity
    \/ CallListingCompleteness
    \/ CallActivityRecency
    \/ CallEngagement
    \/ CallCommunityFeedback
    \/ CallBehavioralRedFlags
    \/ Return

\* the seven category scorers, each called on its own
ScorerSpec == Init /\ [][ScorerNext]_vars

EngineNext ==
    \/ CalculatePulseScore
    \/ CallCalculateConfidence
    \/ TestGate
    \/ CallCalculateFinalScore
    \/ Return

\* calculatePulseScore together with direct calls of the evaluator and the
\* aggregator on any categories map
EngineSpec == Init /\ [][EngineNext]_vars

-----------------------------------------------------------------------------
(* Properties *)

\* calculatePulseScore has returned a success result
Succeeded ==
    /\ op = "calculatePulseScore"
    /\ result.outcome = "returned"
    /\ result.value.status = "success"

\* calculatePulseScore has returned the insufficient-data result
Rejected ==
    /\ op = "calculatePulseScore"
    /\ result.outcome = "returned"
    /\ result.value.status = "insufficient_data"

\* C1: whenever calculatePulseScore returns status 'success', the values of
\* categoryWeights are non-negative integers that sum to exactly 100
C1_WeightsSumTo100 ==
    Succeeded =>
        LET w == result.value.categoryWeights
        IN  /\ \A k \in DOMAIN w : w[k] \in Nat
            /\ SumSeq([i \in 1..Len(CategoryKeys) |->
                          IF CategoryKeys[i] \in DOMAIN w
                          THEN w[CategoryKeys[i]] ELSE 0]) = 100

\* C2: every CategoryScore a scorer produces has score null if and only if
\* available is false, and when available the score is an integer in [0,100]
C2_ScoreNullIffUnavailable ==
    \A k \in DOMAIN categories :
        /\ categories[k].score = Null <=> ~categories[k].available
        /\ categories[k].available => categories[k].score \in 0..100

\* C2 witness: the red-flag scorer has subtracted more than 100 points of
\* penalties and returned the floor 0 as an available score
C2_Witness ==
    /\ op = "calculateBehavioralRedFlagsScore"
    /\ result.value.available
    /\ result.value.score = 0
    /\ SumSeq([j \in 1..Len(result.value.breakdown.redFlags) |->
                  result.value.breakdown.redFlags[j].penalty]) > 100

\* C3: calculatePulseScore returns 'insufficient_data' exactly when the
\* computed confidence is below 0.35 or the computed coverage is below 0.40
\* and 'success' otherwise; (0.34, 0.50) and (0.50, 0.39) are rejected,
\* (0.50, 0.50) is scored; a categories map with no available category has
\* coverage 0 and is rejected whatever recency and consistency are
C3_GateCorrect ==
    /\ (op = "calculatePulseScore" /\ result.outcome = "returned") =>
           LET v == result.value
               coverage == IF v.status = "success"
                           THEN v.confidenceMetrics.coverage ELSE v.coverage
           IN  /\ v.status \in {"success", "insufficient_data"}
               /\ v.status = "insufficient_data" <=>
                      (v.confidence < 35 \/ coverage < 40)
    /\ op = "calculateConfidence" =>
           LET v == result.value
           IN  /\ v.insufficient <=> (v.confidenceMetrics.confidence < 35
                                      \/ v.confidenceMetrics.coverage < 40)
               /\ (\A k \in DOMAIN categories : ~categories[k].available) =>
                      v.confidenceMetrics.coverage = 0 /\ v.insufficient
    /\ op = "gate" =>
           LET v == result.value
               at(confidence, coverage) ==
                   /\ v.confidenceMetrics.confidence = confidence
                   /\ v.confidenceMetrics.coverage = coverage
           IN  /\ at(34, 50) => v.insufficient
               /\ at(50, 39) => v.insufficient
               /\ at(50, 50) => ~v.insufficient

\* C3 witness: no category available, last seen within 30 days and a
\* consistent profile: confidence 0.50 passes its test, coverage 0 rejects
C3_Witness ==
    /\ op = "calculateConfidence"
    /\ \A k \in DOMAIN categories : ~categories[k].available
    /\ result.value.confidenceMetrics.recency = 100
    /\ result.value.confidenceMetrics.consistency = 100
    /\ result.value.confidenceMetrics.confidence = 50
    /\ result.value.insufficient

\* the fixed weight of the available categories, and their weighted scores
AvailableWeight(cats) ==
    SumSeq([i \in 1..Len(CategoryKeys) |->
               IF cats[CategoryKeys[i]].available
               THEN constructor.categoryWeights[CategoryKeys[i]] ELSE 0])
AvailableWeightedScore(cats) ==
    SumSeq([i \in 1..Len(CategoryKeys) |->
               IF cats[CategoryKeys[i]].available
               THEN constructor.categoryWeights[CategoryKeys[i]]
                        * cats[CategoryKeys[i]].score
               ELSE 0])

\* the score and the weights the aggregator reported for the categories map
Aggregated ==
    \/ Succeeded
    \/ op = "calculateFinalScore"
ReportedScore ==
    IF op = "calculateFinalScore" THEN result.value.finalScore
    ELSE result.value.pulseScore
ReportedWeights ==
    IF op = "calculateFinalScore" THEN result.value.normalizedWeights
    ELSE result.value.categoryWeights

\* C4: the final score is the weighted mean of the available categories'
\* scores under the fixed weights renormalized over the available categories,
\* rounded to the nearest integer (the mean is accumulated in doubles: on an
\* exact half the result is one of the two neighbours); unavailable
\* categories weigh 0; with all seven available the weights are
\* 25/15/15/10/10/10/15; with no available weight the final score is 0
C4_FinalScoreIsRenormalizedMean ==
    Aggregated =>
        LET W == AvailableWeight(categories)
            S == AvailableWeightedScore(categories)
        IN  /\ W = 0 => ReportedScore = 0
            /\ W > 0 =>
                  /\ 2 * S - W <= 2 * W * ReportedScore
                  /\ 2 * W * ReportedScore <= 2 * S + W
                  /\ ~IsHalf(S, W) => ReportedScore = RoundHalfUp(S, W)
                  /\ \A k \in CategoryKeySet :
                         ~categories[k].available => ReportedWeights[k] = 0
                  /\ (\A k \in CategoryKeySet : categories[k].available) =>
                         ReportedWeights = constructor.categoryWeights

\* C4 witness: a seller scored without Engagement data, whose other
\* categories do not all score the same
C4_Witness ==
    /\ Succeeded
    /\ ~categories.engagement.available
    /\ categories.accountMaturity.available
    /\ categories.accountMaturity.score # categories.verificationIdentity.score
    /\ result.value.categoryWeights.engagement = 0
    /\ result.value.pulseScore > 0

\* C5: the insufficient-data outcome is returned, not thrown, with status
\* 'insufficient_data', confidence, coverage, the available and missing
\* categories and exactly one recommendation, and without pulseScore,
\* trustLevel or categoryWeights
C5_InsufficientDataIsAResult ==
    (/\ op = "calculatePulseScore"
     /\ sellerData # NullSeller
     /\ InsufficientData(calculateConfidence(sellerData, recentListings, categories)))
    => /\ result.outcome = "returned"
       /\ result.value.status = "insufficient_data"
       /\ {"status", "confidence", "coverage", "availableCategories",
           "missingCategories", "recommendations"} \subseteq DOMAIN result.value
       /\ DOMAIN result.value \cap {"pulseScore", "trustLevel", "categoryWeights"} = {}
       /\ Len(result.value.recommendations) = 1
       /\ result.value.availableCategories + Len(result.value.missingCategories)
              = Len(CategoryKeys)

\* C5 witness: a seller with only two categories available was rejected
C5_Witness ==
    /\ Rejected
    /\ result.value.availableCategories = 2
    /\ Len(result.value.missingCategories) = 5

\* C6: Community Feedback is unavailable (score null) whenever the seller has
\* no marketplace review data and no community feedback at all, also when the
\* feedback object supplied holds zero endorsements and zero flags
C6_NoFeedbackDataIsUnavailable ==
    (/\ op = "calculateCommunityFeedbackScore"
     /\ sellerData.totalReviews = 0
     /\ sellerData.avgRating10 = 0
     /\ veribleFeedback.endorsements = 0
     /\ veribleFeedback.flags = 0)
    => ~result.value.available /\ result.value.score = Null

\* C7: the red-flag scorer scans at most 5 listings: the score and the
\* redFlags breakdown are those of the first five listings
C7_AtMostFiveListingsScanned ==
    (op = "calculateBehavioralRedFlagsScore" /\ Len(recentListings) >= 1) =>
        LET firstFive == calculateBehavioralRedFlagsScore(
                             Slice(recentListings, 5), sellerData)
        IN  /\ result.value.score = firstFive.score
            /\ result.value.breakdown.redFlags = firstFive.breakdown.redFlags

\* the penalty of each flag as the specification lists them
ClaimedPenalty(flag) ==
    CASE flag = "Urgent language" -> 15
      [] flag = "Financial pressure language" -> 15
      [] flag = "Cash only / suspicious payment" -> 20
      [] flag = "First come first serve" -> 10
      [] flag = "Off-platform contact attempt" -> 20
      [] flag = "ALL-CAPS title" -> 5
      [] flag = "Excessive emojis" -> 5

\* the flags each listing of the vocabulary matches, read off its text
MatchedFlags(listing) ==
    CASE listing = ScenarioListing ->
             {"Urgent language", "Cash only / suspicious payment",
              "Off-platform contact attempt"}
      [] listing = PressureListing ->
             {"Urgent language", "Financial pressure language",
              "First come first serve", "ALL-CAPS title"}
      [] listing = EmojiListing -> {"Excessive emojis"}
      [] OTHER -> {}

RECURSIVE SumPenalties(_)
SumPenalties(flags) ==
    IF flags = {} THEN 0
    ELSE LET f == CHOOSE x \in flags : TRUE
         IN  ClaimedPenalty(f) + SumPenalties(flags \ {f})

\* C8: with at least one listing the Behavioral Red Flags score is
\* max(0, 100 - sum of penalties) over the listings of the array, each phrase
\* family counted at most once per listing with its fixed penalty, and the
\* breakdown holds exactly one entry per matched flag with its 1-based listing
\* index and penalty; one listing matching urgency, cash-only and
\* off-platform contact scores 45 with 3 entries
C8_RedFlagPenalties ==
    (op = "calculateBehavioralRedFlagsScore" /\ Len(recentListings) >= 1) =>
        LET redFlags == result.value.breakdown.redFlags
            expected == {<<i, f, ClaimedPenalty(f)>> :
                            i \in 1..Len(recentListings),
                            f \in UNION {MatchedFlags(recentListings[j]) :
                                            j \in 1..Len(recentListings)}}
            matched == {e \in expected : e[2] \in MatchedFlags(recentListings[e[1]])}
            total == SumSeq([i \in 1..Len(recentListings) |->
                                SumPenalties(MatchedFlags(recentListings[i]))])
        IN  /\ result.value.available
            /\ {<<redFlags[j].listing, redFlags[j].flag, redFlags[j].penalty>> :
                   j \in 1..Len(redFlags)} = matched
            /\ Len(redFlags) = Cardinality(matched)
            /\ result.value.breakdown.redFlagsFound = Len(redFlags)
            /\ result.value.score = Max(0, 100 - total)
            /\ recentListings = <<ScenarioListing>> =>
                   result.value.score = 45 /\ Len(redFlags) = 3

\* C8 witness: a clean listing followed by the listing that matches urgency,
\* cash-only and off-platform contact: 45, three entries, all for listing 2
C8_Witness ==
    /\ op = "calculateBehavioralRedFlagsScore"
    /\ recentListings = <<CleanListing, ScenarioListing>>
    /\ result.value.score = 45
    /\ Len(result.value.breakdown.redFlags) = 3
    /\ \A j \in 1..3 : result.value.breakdown.redFlags[j].listing = 2

\* C9: an available Community Feedback score is the base tier (100 for
\* reviewCount >= 10 or avgRating >= 4.5, 70 for >= 5, 40 for >= 1, else 0),
\* raised by 5 per net endorsement up to 100 or lowered by 10 per net flag
\* down to 0; base 40 with 2 endorsements and 5 flags gives 10
C9_CommunityFeedbackFormula ==
    (op = "calculateCommunityFeedbackScore" /\ result.value.available) =>
        LET reviewCount == sellerData.totalReviews
            base == IF reviewCount >= 10 \/ sellerData.avgRating10 >= 45 THEN 100
                    ELSE IF reviewCount >= 5 THEN 70
                    ELSE IF reviewCount >= 1 THEN 40
                    ELSE 0
            net == veribleFeedback.endorsements - veribleFeedback.flags
        IN  /\ net > 0 => result.value.score = Min(100, base + 5 * net)
            /\ net < 0 => result.value.score = Max(0, base - 10 * (0 - net))
            /\ net = 0 => result.value.score = base
            /\ (base = 40 /\ veribleFeedback.endorsements = 2
                /\ veribleFeedback.flags = 5) => result.value.score = 10

\* C9 witness: one marketplace review, 2 endorsements and 5 flags score 10
C9_Witness ==
    /\ op = "calculateCommunityFeedbackScore"
    /\ sellerData.totalReviews = 1
    /\ sellerData.avgRating10 = 32
    /\ veribleFeedback = Feedback(2, 5)
    /\ result.value.available
    /\ result.value.score = 10

\* the seller of the "Excellent" scenario: ID-verified with photo and
\* location, account age >= 12 months, response rate >= 90, at least 10
\* reviews, at least one listing and no red flag in any listing, last seen
\* within 30 days
ExcellentScenario ==
    /\ op = "calculatePulseScore"
    /\ sellerData # NullSeller
    /\ toLowerCase(sellerData.verificationStatus) = "id-verified"
    /\ sellerData.profilePicture = "photo.jpg"
    /\ sellerData.location = "Lagos"
    /\ sellerData.accountAge >= 12
    /\ sellerData.responseRate >= 90
    /\ sellerData.totalReviews >= 10
    /\ Len(recentListings) >= 1
    /\ \A i \in 1..Len(recentListings) : MatchedFlags(recentListings[i]) = {}
    /\ sellerData.lastSeen # Undefined
    /\ parseInt(sellerData.lastSeen) \in 0..30

ScoredExcellent ==
    /\ result.outcome = "returned"
    /\ result.value.status = "success"
    /\ result.value.pulseScore >= 80
    /\ result.value.trustLevel = "Excellent"

\* C10 as stated: every such seller is scored 'success' with pulseScore >= 80
\* and trustLevel 'Excellent', whatever the Listing Completeness score is
C10_ExcellentScenario ==
    ExcellentScenario => ScoredExcellent

\* C10 amended: the same, for sellers whose community feedback is absent or
\* holds at most 2 more flags than endorsements
C10_ExcellentScenarioUnflagged ==
    (ExcellentScenario
     /\ veribleFeedback.flags - veribleFeedback.endorsements <= 2)
    => ScoredExcellent

\* C10 witness: such a seller with one empty listing (Listing Completeness
\* 0) and two flags is scored exactly 80, 'Excellent'
C10_Witness ==
    /\ ExcellentScenario
    /\ veribleFeedback = Feedback(0, 2)
    /\ categories.listingCompleteness.score = 0
    /\ result.value.status = "success"
    /\ result.value.pulseScore = 80
    /\ result.value.trustLevel = "Excellent"

\* the verification tiers, lowest first
VerificationTiers ==
    <<"unverified", "email-verified", "phone-verified", "id-verified">>

\* the Verification & Identity score of the seller of the last call had its
\* verification status been tier i
ScoreAtTier(i) ==
    calculateVerificationIdentityScore(
        [sellerData EXCEPT !.verificationStatus = VerificationTiers[i]]).score

\* C11: for the same photo and location, raising the verification tier along
\* unverified -> email-verified -> phone-verified -> ID-verified never
\* decreases the Verification & Identity score: the score returned for a
\* seller of tier j is at least the score of every lower tier and at most the
\* score of every higher tier
C11_VerificationMonotone ==
    op = "calculateVerificationIdentityScore" =>
        \A j \in 1..Len(VerificationTiers) :
            toLowerCase(sellerData.verificationStatus) = VerificationTiers[j] =>
                /\ \A i \in 1..j : ScoreAtTier(i) <= result.value.score
                /\ \A k \in j..Len(VerificationTiers) :
                       result.value.score <= ScoreAtTier(k)

\* C11 witness: a phone-verified seller with photo and location scores 90,
\* above the same seller email-verified (70) and below ID-verified (100)
C11_Witness ==
    /\ op = "calculateVerificationIdentityScore"
    /\ sellerData.verificationStatus = "Phone-Verified"
    /\ sellerData.profilePicture = "photo.jpg"
    /\ sellerData.location = "Lagos"
    /\ result.value.score = 90
    /\ ScoreAtTier(2) = 70
    /\ ScoreAtTier(4) = 100

-----------------------------------------------------------------------------
(* Calls on extracted profiles that lack parts, and a call the caller keeps *)

\* a profile with every field filled in
FullSeller ==
    [parts |-> SellerParts,
     verificationStatus |-> "id-verified", profilePicture |-> "photo.jpg",
     location |-> "Lagos", bio |-> "We sell phones and accessories",
     accountAge |-> 18, lastSeen |-> "20", responseRate |-> 92,
     totalReviews |-> 85, avgRating10 |-> 47,
     dataAvailability |-> NoAvailability]

\* a new, unverified profile that writes like a business
NewSeller ==
    [parts |-> SellerParts,
     verificationStatus |-> "unverified", profilePicture |-> "",
     location |-> "Not specified", bio |-> "We sell phones and accessories",
     accountAge |-> 2, lastSeen |-> Undefined, responseRate |-> 0,
     totalReviews |-> 1, avgRating10 |-> 32,
     dataAvailability |-> NoAvailability]

\* every dataAvailability map over the three fields the engine looks at
AvailabilityMaps ==
    [{"profilePicture", "location", "recentListings"} -> AvailabilityStates]

\* the maps that give the three fields the same state
UniformAvailabilityMaps ==
    {[profilePicture |-> a, location |-> a, recentListings |-> a] :
        a \in AvailabilityStates}

\* the fields of profileData and marketplaceData
TextFields == {"profilePicture", "location", "bio", "verificationStatus", "lastSeen"}
NumberFields == {"accountAge", "responseRate", "totalReviews", "avgRating10"}

\* what the engine reads from a sellerData object that lacks one field
WithoutField(sd, field) ==
    [f \in DOMAIN sd |->
        IF f # field THEN sd[f]
        ELSE IF f \in NumberFields THEN 0 ELSE Undefined]

\* extracted profiles lacking any subset of the optional sub-objects, under
\* each uniform dataAvailability map, or lacking a single field
PartialSellers ==
    {WithoutParts([b EXCEPT !.dataAvailability = da], missing) :
        b \in {FullSeller, NewSeller}, da \in UniformAvailabilityMaps,
        missing \in SUBSET SellerParts}
    \cup {WithoutField(FullSeller, f) : f \in TextFields \cup NumberFields}

\* const scoringResult = await pulseScoringService.calculatePulseScore(
\*     extractedData, extractedData.recentListings || [], veribleFeedback)
ScoreExtractedProfile ==
    /\ op = "idle"
    /\ \E sd \in PartialSellers \cup {NullSeller},
          rl \in SeqsUpTo({ScenarioListing}, MaxScoredListings),
          vf \in {NoFeedback, Feedback(2, 5)} :
            calculatePulseScore(sd, rl, vf)

\* the caller returns from a call and keeps its arguments and its result
KeepResult ==
    /\ op = "calculatePulseScore"
    /\ earlier = NoCall
    /\ earlier' = [args |-> args, result |-> result, between |-> FALSE]
    /\ op' = "idle"
    /\ sellerData' = BlankSeller
    /\ recentListings' = <<>>
    /\ veribleFeedback' = NoFeedback
    /\ categories' = <<>>
    /\ result' = [outcome |-> "none", value |-> [status |-> "none"]]
    /\ args' = NoArgs
    /\ UNCHANGED <<categoryWeights, tiesRoundDown>>

PartialNext ==
    \/ ScoreExtractedProfile
    \/ Return

\* calculatePulseScore as the controllers call it on what the extraction
\* produced
PartialSpec == Init /\ [][PartialNext]_vars

RepeatNext ==
    \/ ScoreExtractedProfile
    \/ KeepResult
    \/ Return

\* the same, with a caller that keeps one call and goes on calling
RepeatSpec == Init /\ [][RepeatNext]_vars

-----------------------------------------------------------------------------
(* Properties of repeated calls and of calls on partial data *)

\* C12: calling calculatePulseScore again with the arguments of an earlier
\* call settles with the same outcome (status, pulseScore, confidence,
\* categoryWeights, categories, recommendations, riskFactors and every other
\* field), whatever calls were made in between
C12_Deterministic ==
    (/\ op = "calculatePulseScore"
     /\ earlier # NoCall
     /\ args = earlier.args)
    => result = earlier.result

\* C12 witness: a seller was scored 'success', the caller kept the call, a
\* call with other arguments was made, and the first seller is scored again
C12_Witness ==
    /\ op = "calculatePulseScore"
    /\ earlier # NoCall
    /\ earlier.between
    /\ args = earlier.args
    /\ earlier.result.outcome = "returned"
    /\ earlier.result.value.status = "success"
    /\ result.value.pulseScore = earlier.result.value.pulseScore

\* the parts of an outcome that make up the scoring: everything but the
\* breakdown records
Scoring(outcome) ==
    [outcome |-> outcome.outcome,
     status |-> outcome.value.status,
     confidence |->
         IF outcome.outcome = "returned" THEN outcome.value.confidence ELSE Null,
     pulseScore |->
         IF outcome.value.status = "success"
         THEN outcome.value.pulseScore ELSE Null,
     categoryWeights |->
         IF outcome.value.status = "success"
         THEN outcome.value.categoryWeights ELSE <<>>,
     metrics |->
         IF outcome.value.status = "success"
         THEN outcome.value.confidenceMetrics
         ELSE IF outcome.value.status = "insufficient_data"
         THEN [coverage |-> outcome.value.coverage,
               availableCategories |-> outcome.value.availableCategories,
               missingCategories |-> outcome.value.missingCategories]
         ELSE <<>>,
     categories |->
         IF outcome.value.status = "success"
         THEN [k \in CategoryKeySet |->
                  [score |-> outcome.value.categories[k].score,
                   available |-> outcome.value.categories[k].available]]
         ELSE <<>>]

\* C13: two inputs that differ only in dataAvailability entries get the same
\* status, the same score and availability in every category, the same
\* confidence, categoryWeights and pulseScore: the outcome of the call is the
\* outcome under every other dataAvailability map, and the category scores
\* are those under every other map
C13_AvailabilityMapNeverScores ==
    (op = "calculatePulseScore" /\ sellerData # NullSeller) =>
        \A da \in AvailabilityMaps :
            LET other == [sellerData EXCEPT !.dataAvailability = da]
                cats == ScoreCategories(other, recentListings, veribleFeedback)
            IN  /\ Scoring(PulseScoreOutcome(other, recentListings,
                                             veribleFeedback, tiesRoundDown))
                       = Scoring(result)
                /\ \A k \in CategoryKeySet :
                       /\ cats[k].score = categories[k].score
                       /\ cats[k].available = categories[k].available

\* C13 witness: a seller without photo, location and listings on a platform
\* that exposes none of them is scored 'success'; the breakdowns record
\* platform_unavailable
C13_Witness ==
    /\ Succeeded
    /\ sellerData.dataAvailability.recentListings = "platform_unavailable"
    /\ sellerData.dataAvailability.profilePicture = "platform_unavailable"
    /\ recentListings = <<>>
    /\ ~categories.listingCompleteness.available
    /\ categories.listingCompleteness.breakdown.message
           = "Listings not exposed by platform"
    /\ categories.verificationIdentity.breakdown.profilePhoto
           = "platform_unavailable"

\* C14: after a call of calculatePulseScore, on the success path and on the
\* insufficient_data path, the caller's sellerData, recentListings and
\* feedback objects are as they were passed, and the category weight table of
\* the service is the one the constructor set
C14_InputsNotMutated ==
    op = "calculatePulseScore" =>
        /\ sellerData = args.sellerData
        /\ recentListings = args.recentListings
        /\ veribleFeedback = args.veribleFeedback
        /\ categoryWeights = constructor.categoryWeights

\* C14 witness: a call on the insufficient_data path with a feedback object,
\* made after a call on the success path with a listing and a feedback object
C14_Witness ==
    /\ Rejected
    /\ veribleFeedback = Feedback(2, 5)
    /\ earlier.result.value.status = "success"
    /\ Len(earlier.args.recentListings) >= 1
    /\ earlier.args.veribleFeedback = Feedback(2, 5)
    /\ args = Args(sellerData, recentListings, veribleFeedback)

\* a CategoryScore with a score, or the 'unavailable' outcome
WellFormedCategoryScore(c) ==
    \/ c.available /\ c.score \in 0..100
    \/ ~c.available /\ c.score = Null

\* C15: for a sellerData object lacking any subset of profileData,
\* marketplaceData and dataAvailability, or any single field, every scorer
\* returns a score or its 'unavailable' outcome and calculatePulseScore
\* returns a result; a null sellerData is surfaced as a thrown error
C15_NoErrorForMissingData ==
    op = "calculatePulseScore" =>
        IF sellerData = NullSeller
        THEN result.outcome = "thrown"
        ELSE /\ result.outcome = "returned"
             /\ result.value.status \in {"success", "insufficient_data"}
             /\ DOMAIN categories = CategoryKeySet
             /\ \A k \in CategoryKeySet : WellFormedCategoryScore(categories[k])

\* C15 witness: a sellerData object with none of the three sub-objects, no
\* listing and null feedback gets the insufficient-data result
C15_Witness ==
    /\ Rejected
    /\ sellerData.parts = {}
    /\ recentListings = <<>>
    /\ veribleFeedback = NoFeedback
    /\ categories.verificationIdentity.score = 0
    /\ result.value.availableCategories = 1

-----------------------------------------------------------------------------
(* The seven scorers evaluated in any order *)

\* the scorers if Activity & Recency took its fallback from the Listing
\* Completeness entry of the map built so far instead of the listings
CategoryScore_ReadsCompleteness(key, sd, rl, vf, cats) ==
    CASE key = "verificationIdentity" -> calculateVerificationIdentityScore(sd)
      [] key = "accountMaturity" -> calculateAccountMaturityScore(sd)
      [] key = "listingCompleteness" -> calculateListingCompletenessScore(rl, sd)
      [] key = "activityRecency" ->
             calculateActivityRecencyScore(sd,
                 IF "listingCompleteness" \in DOMAIN cats
                    /\ cats["listingCompleteness"].available
                 THEN rl ELSE <<>>)
      [] key = "engagement" -> calculateEngagementScore(sd)
      [] key = "communityFeedback" -> calculateCommunityFeedbackScore(sd, vf)
      [] key = "behavioralRedFlags" -> calculateBehavioralRedFlagsScore(rl, sd)

\* the entry of the categories map under key: each scorer is called with
\* sellerData, recentListings and veribleFeedback only; cats, the part of the
\* map built so far, is passed to none of them
CategoryScore(key, sd, rl, vf, cats) ==
    CASE key = "verificationIdentity" -> calculateVerificationIdentityScore(sd)
      [] key = "accountMaturity" -> calculateAccountMaturityScore(sd)
      [] key = "listingCompleteness" -> calculateListingCompletenessScore(rl, sd)
      [] key = "activityRecency" -> calculateActivityRecencyScore(sd, rl)
      [] key = "engagement" -> calculateEngagementScore(sd)
      [] key = "communityFeedback" -> calculateCommunityFeedbackScore(sd, vf)
      [] key = "behavioralRedFlags" -> calculateBehavioralRedFlagsScore(rl, sd)

\* a call of calculatePulseScore begins: no category is scored yet
BeginScoring ==
    /\ op = "idle"
    /\ \E sd \in {FullSeller, NewSeller, WithoutField(FullSeller, "lastSeen")},
          rl \in SeqsUpTo({ScenarioListing}, MaxScoredListings),
          vf \in {NoFeedback, Feedback(2, 5)} :
            /\ op' = "scoring"
            /\ args' = Args(sd, rl, vf)
            /\ sellerData' = sd
            /\ recentListings' = rl
            /\ veribleFeedback' = vf
            /\ categories' = <<>>
            /\ UNCHANGED <<result, categoryWeights, tiesRoundDown, earlier>>

\* one more scorer is evaluated, whichever
ScoreOneCategory ==
    /\ op = "scoring"
    /\ \E key \in CategoryKeySet \ DOMAIN categories :
           categories' = categories @@
               (key :> CategoryScore(key, sellerData, recentListings,
                                     veribleFeedback, categories))
    /\ UNCHANGED <<op, sellerData, recentListings, veribleFeedback, result,
                   categoryWeights, args, tiesRoundDown, earlier>>

\* the map is complete: confidence, gate, aggregation and synthesis
FinishScoring ==
    /\ op = "scoring"
    /\ DOMAIN categories = CategoryKeySet
    /\ op' = "calculatePulseScore"
    /\ result' = [outcome |-> "returned",
                  value |-> ScoringResult(sellerData, recentListings,
                                          categories, tiesRoundDown)]
    /\ UNCHANGED <<sellerData, recentListings, veribleFeedback, categories,
                   categoryWeights, args, tiesRoundDown, earlier>>

InterleavingNext ==
    \/ BeginScoring
    \/ ScoreOneCategory
    \/ FinishScoring
    \/ Return

\* calculatePulseScore with the seven scorers evaluated in any order
InterleavingSpec == Init /\ [][InterleavingNext]_vars

\* C16: none of the 7 scorers reads another scorer's output: in whatever
\* order they are evaluated, every entry of the categories map is the one the
\* declaration order gives and the result is the one of calculatePulseScore;
\* changing the community feedback counts, the account age or the response
\* rate changes the CategoryScore of no other category
C16_ScorersIndependent ==
    op \in {"scoring", "calculatePulseScore"} =>
        LET inOrder == ScoreCategories(sellerData, recentListings, veribleFeedback)
        IN  /\ \A k \in DOMAIN categories : categories[k] = inOrder[k]
            /\ op = "calculatePulseScore" =>
                   result = PulseScoreOutcome(sellerData, recentListings,
                                              veribleFeedback, tiesRoundDown)
            /\ \A k \in DOMAIN categories, e \in 0..MaxFeedback,
                  f \in 0..MaxFeedback, n \in {0, 2, 18, 92} :
                   /\ k # "communityFeedback" =>
                          CategoryScore(k, sellerData, recentListings,
                                        Feedback(e, f), categories) = categories[k]
                   /\ k # "accountMaturity" =>
                          CategoryScore(k, [sellerData EXCEPT !.accountAge = n],
                                        recentListings, veribleFeedback,
                                        categories) = categories[k]
                   /\ k # "engagement" =>
                          CategoryScore(k, [sellerData EXCEPT !.responseRate = n],
                                        recentListings, veribleFeedback,
                                        categories) = categories[k]

\* C16 witness: the red-flag scorer and the Activity & Recency scorer (on its
\* listings fallback) were evaluated before Verification & Identity and
\* Listing Completeness
C16_Witness ==
    /\ op = "scoring"
    /\ DOMAIN categories = {"behavioralRedFlags", "activityRecency"}
    /\ categories["behavioralRedFlags"].score = 45
    /\ categories["activityRecency"].score = 50

\* the bios of the vocabulary that hold 'we supply' or 'we sell'
BusinessBios == {"We sell phones and accessories"}

\* the recency the specification gives, in hundredths: last-seen as a number
\* of days, or unknown (absent) with or without a listing
ClaimedRecency(lastSeen, listings) ==
    IF lastSeen # Undefined
    THEN IF parseInt(lastSeen) \in 0..30 THEN 100
         ELSE IF parseInt(lastSeen) \in 31..60 THEN 60
         ELSE 30
    ELSE IF Len(listings) >= 1 THEN 60 ELSE 30

C18_ActivityRecency ==
    op = "calculateActivityRecencyScore" =>
        LET lastSeen == sellerData.lastSeen
            known == lastSeen # Undefined /\ parseInt(lastSeen) # NaN
            days == parseInt(lastSeen)
            v == result.value
        IN  IF known
            THEN /\ v.available
                 /\ v.score = IF days <= 7 THEN 100
                              ELSE IF days <= 30 THEN 70
                              ELSE IF days <= 60 THEN 40
                              ELSE 10
            ELSE IF Len(recentListings) >= 1
            THEN v.available /\ v.score = 50
            ELSE ~v.available /\ v.score = Null

\* the prices of the vocabulary that look like a number
NumericPrices == {"250000", "500"}

\* the points the specification awards one listing
ClaimedListingPoints(listing) ==
      (IF listing.title \notin {Undefined, ""} THEN 5 ELSE 0)
    + (IF listing.price \in NumericPrices THEN 10 ELSE 0)
    + (IF listing.imageCount >= 3 THEN 15
       ELSE IF listing.imageCount >= 1 THEN 5 ELSE 0)
    + (IF listing.description # Undefined /\ length(listing.description) >= 100
       THEN 20 ELSE 0)

ClaimedBase(status) ==
    CASE status \in {"id-verified"} -> 100
      [] status \in {"Phone-Verified", "phone-verified"} -> 70
      [] status \in {"email-verified"} -> 50
      [] OTHER -> 0

\* C20: Verification & Identity is always available, its score is never
\* null, and it is min(100, base + 10 for a profile photo + 10 for a location
\* that is neither empty nor the placeholder), the base being 100 for
\* ID-verified, 70 for phone-verified, 50 for email-verified and 0 for an
\* unverified or unknown status
C20_VerificationIdentity ==
    op = "calculateVerificationIdentityScore" =>
        LET hasPhoto == sellerData.profilePicture \notin {Undefined, ""}
            hasLocation ==
                sellerData.location \notin {Undefined, "", "Not specified"}
            sum == ClaimedBase(sellerData.verificationStatus)
                   + (IF hasPhoto THEN 10 ELSE 0)
                   + (IF hasLocation THEN 10 ELSE 0)
        IN  /\ result.value.available
            /\ result.value.score # Null
            /\ result.value.score = IF sum <= 100 THEN sum ELSE 100

\* C20 witness: an ID-verified seller with photo and location: 100 + 10 + 10
\* is capped at 100
C20_Witness ==
    /\ op = "calculateVerificationIdentityScore"
    /\ sellerData.verificationStatus = "id-verified"
    /\ sellerData.profilePicture = "photo.jpg"
    /\ sellerData.location = "Lagos"
    /\ result.value.score = 100
    /\ result.value.breakdown.verificationType = "ID Verified"


-----------------------------------------------------------------------------
(* Account Maturity and Engagement *)

\* the tier the account age falls in: 12 months, 6 months, 3 months, less
MaturityTier(age) ==
    IF age >= 12 THEN 100 ELSE IF age >= 6 THEN 70 ELSE IF age >= 3 THEN 40 ELSE 10

\* the account age the caller passed, if it passed one
PassedAccountAge ==
    IF "marketplaceData" \in sellerData.parts THEN sellerData.accountAge ELSE 0

\* C21: Account Maturity is unavailable (score null) exactly when the account
\* age is 0 or marketplaceData is missing; otherwise it is available and its
\* score is 100 from 12 months, 70 from 6, 40 from 3 and 10 for any other age
C21_AccountMaturity ==
    op = "calculateAccountMaturityScore" =>
        LET c == result.value
            noAge == "marketplaceData" \notin sellerData.parts
                     \/ sellerData.accountAge = 0
        IN  /\ c.available = ~noAge
            /\ noAge => c.score = Null
            /\ ~noAge => c.score = MaturityTier(PassedAccountAge)

\* C21 witness: an account of exactly 6 months is scored 70, one of 5 months
\* would be scored 40, and the same call without marketplaceData is unavailable
C21_Witness ==
    /\ op = "calculateAccountMaturityScore"
    /\ sellerData.accountAge = 6
    /\ result.value.available
    /\ result.value.score = 70
    /\ calculateAccountMaturityScore(
           [sellerData EXCEPT !.accountAge = 5]).score = 40
    /\ ~calculateAccountMaturityScore(
           WithoutParts(sellerData, {"marketplaceData"})).available

\* the tier the response rate falls in: 90, 80, 60, less
EngagementTier(rate) ==
    IF rate >= 90 THEN 100 ELSE IF rate >= 80 THEN 80 ELSE IF rate >= 60 THEN 60 ELSE 30

\* C22: Engagement is unavailable (score null) exactly when the response rate
\* is zero or missing, and a zero rate is never given a score; otherwise it
\* is available with score 100 from 90, 80 from 80, 60 from 60, 30 below 60
C22_Engagement ==
    op = "calculateEngagementScore" =>
        LET c == result.value
            noRate == "marketplaceData" \notin sellerData.parts
                      \/ sellerData.responseRate = 0
        IN  /\ c.available = ~noRate
            /\ noRate => c.score = Null
            /\ ~noRate => c.score = EngagementTier(sellerData.responseRate)

\* C22 witness: a response rate of 1 is available with score 30, while the
\* same seller with rate 0 is unavailable
C22_Witness ==
    /\ op = "calculateEngagementScore"
    /\ sellerData.responseRate = 1
    /\ result.value.available
    /\ result.value.score = 30
    /\ ~calculateEngagementScore(
           [sellerData EXCEPT !.responseRate = 0]).available


-----------------------------------------------------------------------------
(* The synthesis: recommendations, risk factors and labels *)

\* categories maps with the four categories the synthesis compares at scores
\* on both sides of each threshold; Verification & Identity is always
\* available, the three categories the synthesis never compares are left out
SynthesisCategories ==
    {[verificationIdentity |-> vi, accountMaturity |-> am,
      listingCompleteness |-> [score |-> Null, available |-> FALSE],
      activityRecency |-> [score |-> Null, available |-> FALSE],
      engagement |-> [score |-> Null, available |-> FALSE],
      communityFeedback |-> cf, behavioralRedFlags |-> brf] :
        vi \in AnyCategoryScores({29, 30, 49, 50}) \ AnyCategoryScores({}),
        am \in AnyCategoryScores({10, 40}),
        cf \in AnyCategoryScores({39, 40}),
        brf \in AnyCategoryScores({69, 70})}

\* final scores on both sides of each band
BandScores == {0, 19, 20, 39, 40, 59, 60, 79, 80, 100}

\* this.generateRecommendations(finalScore, categories)
CallGenerateRecommendations ==
    /\ op = "idle"
    /\ \E finalScore \in BandScores, cats \in SynthesisCategories :
           Called("generateRecommendations", BlankSeller, <<>>, NoFeedback, cats,
                  [finalScore |-> finalScore,
                   recommendations |-> generateRecommendations(finalScore, cats)])

\* this.identifyRiskFactors(categories)
CallIdentifyRiskFactors ==
    /\ op = "idle"
    /\ \E cats \in SynthesisCategories :
           Called("identifyRiskFactors", BlankSeller, <<>>, NoFeedback, cats,
                  [riskFactors |-> identifyRiskFactors(cats)])

\* this.determineTrustLevel(finalScore)
CallDetermineTrustLevel ==
    /\ op = "idle"
    /\ \E score \in 0..100 :
           Called("determineTrustLevel", BlankSeller, <<>>, NoFeedback, <<>>,
                  [score |-> score, trustLevel |-> determineTrustLevel(score)])

\* this.getConfidenceLabel(confidenceMetrics.confidence), in hundredths
CallGetConfidenceLabel ==
    /\ op = "idle"
    /\ \E confidence \in 0..100 :
           Called("getConfidenceLabel", BlankSeller, <<>>, NoFeedback, <<>>,
                  [confidence |-> confidence,
                   confidenceLevel |-> getConfidenceLabel(confidence)])

SynthesisNext ==
    \/ CalculatePulseScore
    \/ CallGenerateRecommendations
    \/ CallIdentifyRiskFactors
    \/ CallDetermineTrustLevel
    \/ CallGetConfidenceLabel
    \/ Return

\* calculatePulseScore, and each method of its synthesis called alone
SynthesisSpec == Init /\ [][SynthesisNext]_vars

\* the overall recommendation of each score band
OverallAction(score) ==
    IF score >= 80 THEN "Safe to Purchase"
    ELSE IF score >= 60 THEN "Consider for Purchase"
    ELSE IF score >= 40 THEN "Review Carefully Before Purchase"
    ELSE "Avoid or Request Additional Verification"

\* the conditional recommendations in the order claimed, with their conditions
ConditionalActions ==
    <<"Request verification before proceeding",
      "Exercise extreme caution or avoid",
      "Check reviews carefully">>
ConditionHolds(k, cats) ==
    IF k = 1 THEN cats.verificationIdentity.score < 50
    ELSE IF k = 2 THEN cats.behavioralRedFlags.available
                       /\ cats.behavioralRedFlags.score < 70
    ELSE cats.communityFeedback.available /\ cats.communityFeedback.score < 40

\* the list recs is as claimed for the final score and the categories
RecommendationsAsClaimed(recs, score, cats) ==
    /\ Len(recs) >= 1
    /\ recs[1].action = OverallAction(score)
    /\ \A i \in 2..Len(recs) :
           \E k \in 1..3 : recs[i].action = ConditionalActions[k]
    /\ \A k \in 1..3 :
           (\E i \in 2..Len(recs) : recs[i].action = ConditionalActions[k])
           <=> ConditionHolds(k, cats)
    /\ \A i, j \in 2..Len(recs) :
           i < j => \E k, l \in 1..3 :
                       /\ k < l
                       /\ recs[i].action = ConditionalActions[k]
                       /\ recs[j].action = ConditionalActions[l]

\* the overall action goes with the trust level of the same band
SameBand(action, trustLevel) ==
    /\ action = "Safe to Purchase" <=> trustLevel = "Excellent"
    /\ action = "Consider for Purchase" <=> trustLevel = "Good"
    /\ action = "Review Carefully Before Purchase" <=> trustLevel = "Fair"
    /\ action = "Avoid or Request Additional Verification"
           <=> trustLevel \in {"Poor", "Very Poor"}

\* C23: the recommendations, of a success result and of generateRecommendations
\* called alone, start with the one overall recommendation of the score band
\* (80 Safe to Purchase, 60 Consider, 40 Review Carefully, otherwise Avoid,
\* the bands of trustLevel), followed in this order, each exactly when its
\* condition holds, by: request verification (Verification score < 50), the
\* red-flag warning (Behavioral Red Flags available with score < 70), check
\* reviews carefully (Community Feedback available with score < 40)
C23_Recommendations ==
    /\ op = "generateRecommendations" =>
           /\ RecommendationsAsClaimed(result.value.recommendations,
                                       result.value.finalScore, categories)
           /\ SameBand(result.value.recommendations[1].action,
                       determineTrustLevel(result.value.finalScore))
    /\ Succeeded =>
           /\ RecommendationsAsClaimed(result.value.recommendations,
                                       result.value.pulseScore,
                                       result.value.categories)
           /\ SameBand(result.value.recommendations[1].action,
                       result.value.trustLevel)

\* C23 witness: a success result below 40 carrying the overall 'Avoid'
\* recommendation followed by all three conditional ones
C23_Witness ==
    /\ Succeeded
    /\ result.value.pulseScore < 40
    /\ Len(result.value.recommendations) = 4
    /\ result.value.recommendations[2].action = ConditionalActions[1]
    /\ result.value.recommendations[4].action = ConditionalActions[3]

\* the danger threshold and the severity of the four categories that can
\* produce a risk factor
Dangers ==
    {[key |-> "verificationIdentity", category |-> "Verification & Identity",
      below |-> 30, severity |-> "high"],
     [key |-> "accountMaturity", category |-> "Account Maturity",
      below |-> 40, severity |-> "medium"],
     [key |-> "behavioralRedFlags", category |-> "Behavioral Red Flags",
      below |-> 70, severity |-> "critical"],
     [key |-> "communityFeedback", category |-> "Community Feedback",
      below |-> 40, severity |-> "medium"]}

\* the list risks is as claimed for the categories
RiskFactorsAsClaimed(risks, cats) ==
    /\ \A i \in 1..Len(risks) :
           \E d \in Dangers : /\ risks[i].category = d.category
                              /\ risks[i].severity = d.severity
    /\ \A d \in Dangers :
           Cardinality({i \in 1..Len(risks) : risks[i].category = d.category})
               = IF cats[d.key].available /\ cats[d.key].score < d.below
                 THEN 1 ELSE 0

\* C24: riskFactors, of a success result and of identifyRiskFactors called
\* alone, holds exactly one entry for each category that is available and
\* below its danger threshold and no other entry: Verification & Identity
\* < 30 (high), Account Maturity < 40 (medium), Behavioral Red Flags < 70
\* (critical), Community Feedback < 40 (medium); an unavailable category
\* produces none
C24_RiskFactors ==
    /\ op = "identifyRiskFactors" =>
           RiskFactorsAsClaimed(result.value.riskFactors, categories)
    /\ Succeeded =>
           RiskFactorsAsClaimed(result.value.riskFactors,
                                result.value.categories)

\* C24 witness: a success result whose Account Maturity is unavailable, with
\* the three other risk factors and none for Account Maturity
C24_Witness ==
    /\ Succeeded
    /\ ~result.value.categories.accountMaturity.available
    /\ Len(result.value.riskFactors) = 3
    /\ \A i \in 1..3 : result.value.riskFactors[i].category # "Account Maturity"

\* the label bands as claimed, confidence in hundredths
ClaimedTrustLevel(score) ==
    CASE score >= 80 -> "Excellent"
      [] score >= 60 /\ score < 80 -> "Good"
      [] score >= 40 /\ score < 60 -> "Fair"
      [] score >= 20 /\ score < 40 -> "Poor"
      [] score < 20 -> "Very Poor"
ClaimedConfidenceLevel(confidence) ==
    CASE confidence >= 80 -> "Very High"
      [] confidence >= 60 /\ confidence < 80 -> "High"
      [] confidence >= 40 /\ confidence < 60 -> "Medium"
      [] confidence >= 20 /\ confidence < 40 -> "Low"
      [] confidence < 20 -> "Very Low"

\* C25: trustLevel is Excellent from 80, Good from 60, Fair from 40, Poor
\* from 20 and Very Poor below; confidenceLevel is Very High from 0.80, High
\* from 0.60, Medium from 0.40, Low from 0.20 and Very Low below; in a success
\* result each label is the one of the reported pulseScore or confidence
C25_Labels ==
    /\ op = "determineTrustLevel" =>
           result.value.trustLevel = ClaimedTrustLevel(result.value.score)
    /\ op = "getConfidenceLabel" =>
           result.value.confidenceLevel
               = ClaimedConfidenceLevel(result.value.confidence)
    /\ Succeeded =>
           /\ result.value.trustLevel
                  = ClaimedTrustLevel(result.value.pulseScore)
           /\ result.value.confidenceLevel
                  = ClaimedConfidenceLevel(result.value.confidence)

\* C25 witness: a score of 20 is labelled 'Poor', where 19 is 'Very Poor'
C25_Witness ==
    /\ op = "determineTrustLevel"
    /\ result.value.score = 20
    /\ result.value.trustLevel = "Poor"
    /\ determineTrustLevel(19) = "Very Poor"


-----------------------------------------------------------------------------
(* The 9-factor engine of src/src/services/pulseScoring.service.js, the one
   PULSE_SCORING_EXPLAINED.md documents.  Its methods calculatePulseScore,
   generateRecommendations and identifyRiskFactors carry the suffix 9 here,
   the names without it being those of the 7-category engine above. *)

\* this.baseScore, this.maxScore, this.minScore
constructor9 == [baseScore |-> 50, maxScore |-> 100, minScore |-> 0]

\* the weights of calculatePulseScore, in hundredths, in declaration order
FactorKeys ==
    <<"accountAge", "profileCompleteness", "verificationStatus", "ratingScore",
      "reviewCount", "responseRate", "listingQuality", "urgencyScore",
      "activityScore">>
weights ==
    [accountAge |-> 15, profileCompleteness |-> 10, verificationStatus |-> 20,
     ratingScore |-> 15, reviewCount |-> 10, responseRate |-> 5,
     listingQuality |-> 10, urgencyScore |-> 10, activityScore |-> 5]

\* a value that is neither undefined nor the empty string
Truthy(s) == s # Undefined /\ s # ""

calculateAccountAgeScore(accountAgeMonths) ==
    IF accountAgeMonths >= 24 THEN 100
    ELSE IF accountAgeMonths >= 12 THEN 80
    ELSE IF accountAgeMonths >= 6 THEN 60
    ELSE IF accountAgeMonths >= 3 THEN 40
    ELSE IF accountAgeMonths >= 1 THEN 20
    ELSE 0

calculateProfileCompletenessScore(sd) ==
      (IF Truthy(sd.name) /\ sd.name # "Unknown" THEN 20 ELSE 0)
    + (IF Truthy(sd.profilePicture) THEN 20 ELSE 0)
    + (IF Truthy(sd.location) /\ sd.location # "Not specified" THEN 20 ELSE 0)
    + (IF Truthy(sd.bio) /\ length(sd.bio) > 10 THEN 20 ELSE 0)
    + (IF sd.totalListings > 0 THEN 20 ELSE 0)

calculateVerificationScore(verificationStatus) ==
    LET status == IF verificationStatus = Undefined THEN Undefined
                  ELSE toLowerCase(verificationStatus)
    IN  IF status \in {"id-verified", "identity verified"} THEN 100
        ELSE IF status \in {"phone-verified", "phone verified"} THEN 80
        ELSE IF status \in {"email-verified", "email verified"} THEN 60
        ELSE 0

\* avgRating in tenths
calculateRatingScore(avgRating10) ==
    IF avgRating10 >= 45 THEN 100
    ELSE IF avgRating10 >= 40 THEN 80
    ELSE IF avgRating10 >= 35 THEN 60
    ELSE IF avgRating10 >= 30 THEN 40
    ELSE IF avgRating10 >= 25 THEN 20
    ELSE 0

calculateReviewCountScore(totalReviews) ==
    IF totalReviews >= 100 THEN 100
    ELSE IF totalReviews >= 50 THEN 80
    ELSE IF totalReviews >= 20 THEN 60
    ELSE IF totalReviews >= 10 THEN 40
    ELSE IF totalReviews >= 5 THEN 20
    ELSE 0

calculateResponseRateScore(responseRate) ==
    IF responseRate >= 90 THEN 100
    ELSE IF responseRate >= 80 THEN 80
    ELSE IF responseRate >= 70 THEN 60
    ELSE IF responseRate >= 60 THEN 40
    ELSE IF responseRate >= 50 THEN 20
    ELSE 0

\* isNaN of a price text
isNaN(price) == price \notin {"", "250000", "500"}

calculateListingQualityScore(rl) ==
    IF Len(rl) = 0 THEN 0
    ELSE  (IF \E i \in 1..Len(rl) :
                 Truthy(rl[i].title) /\ length(rl[i].title) > 10
           THEN 30 ELSE 0)
        + (IF \E i \in 1..Len(rl) :
                 Truthy(rl[i].price) /\ ~isNaN(rl[i].price)
           THEN 30 ELSE 0)
        + (IF Len(rl) >= 3 THEN 20 ELSE 0)
        + (IF \E i \in 1..Len(rl) : Truthy(rl[i].date) THEN 20 ELSE 0)

\* urgencyKeywords and its three slices (0, 12), (12, 18), (18)
urgencyKeywords ==
    <<"urgent", "asap", "immediate", "quick", "emergency",
      "need money", "bills", "first come", "hurry",
      "payment first", "cash only", "no questions",
      "must sell", "quick sale", "fast sale",
      "selling fast", "limited time", "offer ends",
      "contact now", "call now", "text now",
      "for sale", "available", "in stock">>
highUrgencyKeywords == SubSeq(urgencyKeywords, 1, 12)
mediumUrgencyKeywords == SubSeq(urgencyKeywords, 13, 18)
lowUrgencyKeywords == SubSeq(urgencyKeywords, 19, Len(urgencyKeywords))

\* how many of the keywords the text `${title} ${description || ''}` of a
\* listing includes, lower-cased
KeywordsFound(keywords, listing) ==
    LET title == toLowerCase(listing.title)
        description == IF Truthy(listing.description)
                       THEN toLowerCase(listing.description) ELSE ""
    IN  Cardinality({k \in 1..Len(keywords) :
                        includes(title, keywords[k])
                        \/ includes(description, keywords[k])})

\* listingUrgency of one listing
ListingUrgency(listing) ==
      15 * KeywordsFound(highUrgencyKeywords, listing)
    + 8 * KeywordsFound(mediumUrgencyKeywords, listing)
    + 2 * KeywordsFound(lowUrgencyKeywords, listing)

calculateUrgencyScore(rl) ==
    IF Len(rl) = 0 THEN 0
    ELSE
    LET totalListings == Len(rl)
        perListing == [i \in 1..Len(rl) |-> Min(20, ListingUrgency(rl[i]))]
        highUrgencyCount ==
            Cardinality({i \in 1..Len(rl) : ListingUrgency(rl[i]) >= 15})
        mediumUrgencyCount ==
            Cardinality({i \in 1..Len(rl) : /\ ListingUrgency(rl[i]) >= 8
                                            /\ ListingUrgency(rl[i]) < 15})
        urgencyScore ==
              SumSeq(perListing)
            + (IF 2 * (highUrgencyCount + mediumUrgencyCount) > totalListings
               THEN 25 ELSE 0)
            + (IF 10 * highUrgencyCount > 3 * totalListings THEN 30 ELSE 0)
    IN  Min(100, urgencyScore)

calculateActivityScore(totalListings) ==
    IF totalListings >= 50 THEN 100
    ELSE IF totalListings >= 20 THEN 80
    ELSE IF totalListings >= 10 THEN 60
    ELSE IF totalListings >= 5 THEN 40
    ELSE IF totalListings >= 1 THEN 20
    ELSE 0

calculateConfidenceLevel(sd, rl) ==
    LET confidenceScore ==
              (IF Truthy(sd.name) THEN 20 ELSE 0)
            + (IF Truthy(sd.profilePicture) THEN 15 ELSE 0)
            + (IF Truthy(sd.location) THEN 15 ELSE 0)
            + (IF sd.accountAge > 0 THEN 20 ELSE 0)
            + (IF sd.totalReviews > 0 THEN 15 ELSE 0)
            + (IF Len(rl) > 0 THEN 15 ELSE 0)
    IN  IF confidenceScore >= 80 THEN "high"
        ELSE IF confidenceScore >= 50 THEN "medium"
        ELSE "low"

generateRecommendations9(pulseScore, scoringFactors) ==
       << IF pulseScore >= 80
          THEN [type |-> "positive", action |-> "Safe to Purchase"]
          ELSE IF pulseScore >= 60
          THEN [type |-> "positive", action |-> "Consider for Purchase"]
          ELSE IF pulseScore >= 40
          THEN [type |-> "warning", action |-> "Review Before Purchase"]
          ELSE [type |-> "negative",
                action |-> "Avoid or Request Additional Verification"] >>
    \o PushIf(scoringFactors.verificationStatus < 50,
              [type |-> "warning", action |-> "Request Verification"])
    \o PushIf(scoringFactors.ratingScore < 60,
              [type |-> "warning", action |-> "Review Feedback History"])

generateTrustIndicators(scoringFactors) ==
    [accountVerification |-> scoringFactors.verificationStatus,
     transactionHistory |-> scoringFactors.reviewCount,
     communicationQuality |-> scoringFactors.responseRate,
     disputeResolution |-> scoringFactors.ratingScore]

\* scoringFactors.priceAnomaly is undefined: its test never pushes
identifyRiskFactors9(scoringFactors) ==
       PushIf(scoringFactors.urgencyScore > 30,
              "High urgency language in listings")
    \o PushIf(scoringFactors.verificationStatus < 30,
              "Unverified seller identity")
    \o PushIf(scoringFactors.ratingScore < 40, "Poor customer ratings")

\* the nine scoringFactors
ScoringFactors(sd, rl) ==
    [accountAge |-> calculateAccountAgeScore(sd.accountAge),
     profileCompleteness |-> calculateProfileCompletenessScore(sd),
     verificationStatus |-> calculateVerificationScore(sd.verificationStatus),
     ratingScore |-> calculateRatingScore(sd.avgRating10),
     reviewCount |-> calculateReviewCountScore(sd.totalReviews),
     responseRate |-> calculateResponseRateScore(sd.responseRate),
     listingQuality |-> calculateListingQualityScore(rl),
     urgencyScore |-> calculateUrgencyScore(rl),
     activityScore |-> calculateActivityScore(sd.totalListings)]

\* finalScore = baseScore + the sum of score * weight over the nine factors,
\* in hundredths
WeightedScore(scoringFactors) ==
    100 * constructor9.baseScore
    + SumSeq([i \in 1..Len(FactorKeys) |->
                 scoringFactors[FactorKeys[i]] * weights[FactorKeys[i]]])

\* what the 9-factor calculatePulseScore settles with; a null sellerData
\* makes its first property read throw and its catch block rethrow
calculatePulseScore9(sd, rl, tieDown) ==
    IF sd = NullSeller
    THEN [outcome |-> "thrown",
          value |-> [status |-> "error",
                     message |-> "Failed to calculate pulse score"]]
    ELSE
    LET scoringFactors == ScoringFactors(sd, rl)
        finalScore ==
            Max(constructor9.minScore,
                Min(constructor9.maxScore,
                    MathRound(WeightedScore(scoringFactors), 100, tieDown)))
    IN  [outcome |-> "returned",
         value |-> [pulseScore |-> finalScore,
                    confidenceLevel |-> calculateConfidenceLevel(sd, rl),
                    scoringFactors |-> scoringFactors,
                    recommendations |->
                        generateRecommendations9(finalScore, scoringFactors),
                    trustIndicators |-> generateTrustIndicators(scoringFactors),
                    riskFactors |-> identifyRiskFactors9(scoringFactors)]]

\* listings as the 9-factor engine reads them: title, price, date, description
UrgentAd ==
    [title |-> "URGENT SALE", price |-> "500", date |-> "2 days ago",
     description |-> "URGENT, CASH ONLY, message me on WhatsApp"]
PlainAd ==
    [title |-> "iPhone 12", price |-> "250000", date |-> "2 days ago",
     description |-> "Clean phone, barely used, long description"]
BareAd ==
    [title |-> "iPhone 12", price |-> "", date |-> Undefined,
     description |-> ""]

\* the most listings a call is given
MaxAds == 12

\* recentListings: some urgent listings followed by plain or bare ones
AdLists ==
    {[i \in 1..n |-> IF i <= k THEN UrgentAd ELSE other] :
        n \in {0, 3, MaxAds}, k \in {0, 1, MaxAds},
        other \in {PlainAd, BareAd}}

\* profiles between the documented trusted veteran and suspicious seller
NineFactorSellers ==
    {[name |-> p.name, profilePicture |-> p.profilePicture,
      location |-> p.location, bio |-> p.bio,
      accountAge |-> a, verificationStatus |-> v,
      avgRating10 |-> rv.avgRating10, totalReviews |-> rv.totalReviews,
      responseRate |-> rr, totalListings |-> tl] :
        p \in {[name |-> Undefined, profilePicture |-> Undefined,
                location |-> Undefined, bio |-> Undefined],
               [name |-> "Ada", profilePicture |-> "",
                location |-> "Lagos", bio |-> ""],
               [name |-> "Ada", profilePicture |-> "photo.jpg",
                location |-> "Lagos",
                bio |-> "We sell phones and accessories"]},
        a \in {0, 2, 18},
        v \in {Undefined, "Phone-Verified", "id-verified"},
        rv \in {[avgRating10 |-> 0, totalReviews |-> 0],
                [avgRating10 |-> 32, totalReviews |-> 3],
                [avgRating10 |-> 42, totalReviews |-> 8],
                [avgRating10 |-> 47, totalReviews |-> 85]},
        rr \in {0, 55, 92},
        tl \in {0, 12, 45}}

\* pulseScoringService.calculatePulseScore(sellerData, recentListings) of the
\* 9-factor engine
CalculatePulseScore9 ==
    /\ op = "idle"
    /\ \E sd \in NineFactorSellers \cup {NullSeller}, rl \in AdLists :
           /\ op' = "calculatePulseScore9"
           /\ sellerData' = sd
           /\ recentListings' = rl
           /\ veribleFeedback' = NoFeedback
           /\ categories' = <<>>
           /\ result' = calculatePulseScore9(sd, rl, tiesRoundDown)
           /\ args' = Args(sd, rl, NoFeedback)
           /\ UNCHANGED <<categoryWeights, tiesRoundDown, earlier>>

NineFactorNext ==
    \/ CalculatePulseScore9
    \/ Return

NineFactorSpec == Init /\ [][NineFactorNext]_vars

\* the 9-factor engine has returned a result
Scored9 ==
    /\ op = "calculatePulseScore9"
    /\ result.outcome = "returned"

\* Example 3 of PULSE_SCORING_EXPLAINED.md: a 1-week-old account (0 whole
\* months), no verification, 3.2 stars from 3 reviews, 55% response rate, 12
\* listings, every listing that was extracted being in urgent language
SuspiciousSeller ==
    /\ sellerData.accountAge = 0
    /\ sellerData.verificationStatus \in {Undefined, "unverified"}
    /\ sellerData.avgRating10 = 32
    /\ sellerData.totalReviews = 3
    /\ sellerData.responseRate = 55
    /\ sellerData.totalListings = 12
    /\ Len(recentListings) \in 1..12
    /\ \A i \in 1..Len(recentListings) : recentListings[i] = UrgentAd

\* C26: in the 9-factor engine the final score is always between 0 and 100,
\* and the documented suspicious seller lands in the Low Trust band: a score
\* below 40 with the recommendation 'Avoid or Request Additional Verification'
C26_SuspiciousSellerLowTrust ==
    Scored9 =>
        /\ result.value.pulseScore \in 0..100
        /\ SuspiciousSeller =>
               /\ result.value.pulseScore < 40
               /\ result.value.recommendations[1].action
                      = "Avoid or Request Additional Verification"


-----------------------------------------------------------------------------
(* What decides the gate, and what a success result can report *)

\* calculatePulseScore has returned an object of either status
Returned ==
    /\ op = "calculatePulseScore"
    /\ result.outcome = "returned"

\* the confidence metrics of the call that has returned
MetricsOfCall == calculateConfidence(sellerData, recentListings, categories)

\* C27: calculatePulseScore returns 'insufficient_data' if and only if fewer
\* than 3 of the 7 categories are available; the confidence < 0.35 test never
\* decides, no call having coverage >= 0.40 together with confidence < 0.35
C27_GateIsCategoryCount ==
    Returned =>
        /\ result.value.status = "insufficient_data"
               <=> AvailableCount(categories) < 3
        /\ result.value.status \in {"insufficient_data", "success"}
        /\ ~(MetricsOfCall.coverage >= 40 /\ MetricsOfCall.confidence < 35)

\* C27 witness: a call rejected with two categories available although its
\* confidence is not below 0.35: the coverage test alone rejects it
C27_Witness ==
    /\ Rejected
    /\ AvailableCount(categories) = 2
    /\ result.value.confidence >= 35
    /\ result.value.coverage < 40

\* C30: a success result reports a confidence of at least 0.44, and its
\* confidenceLevel is Medium, High or Very High, never Low or Very Low
C30_SuccessConfidenceFloor ==
    Succeeded =>
        /\ result.value.confidence >= 44
        /\ result.value.confidenceLevel \in {"Medium", "High", "Very High"}

\* C30 witness: a success result with three categories, the lowest recency
\* and a business bio without identity reports exactly 0.44, 'Medium'
C30_Witness ==
    /\ Succeeded
    /\ AvailableCount(categories) = 3
    /\ result.value.confidenceMetrics.recency = 30
    /\ result.value.confidenceMetrics.consistency = 70
    /\ result.value.confidence = 44
    /\ result.value.confidenceLevel = "Medium"


\* C28: when recentListings is non-empty (and sellerData is an object),
\* Verification & Identity, Listing Completeness, Activity & Recency and
\* Behavioral Red Flags are all available and calculatePulseScore returns
\* status 'success', whatever the profile fields and the feedback are
C28_ListingsGiveSuccess ==
    (op = "calculatePulseScore" /\ recentListings # <<>>
     /\ sellerData # NullSeller) =>
        /\ \A key \in {"verificationIdentity", "listingCompleteness",
                       "activityRecency", "behavioralRedFlags"} :
               categories[key].available
        /\ result.outcome = "returned"
        /\ result.value.status = "success"

\* C28 witness: a call with one listing on a profile that gives nothing else
\* (no account age, no last-seen, no response rate, no reviews, no feedback)
\* succeeds on exactly those four categories
C28_Witness ==
    /\ Succeeded
    /\ recentListings # <<>>
    /\ sellerData.lastSeen = Undefined
    /\ veribleFeedback = NoFeedback
    /\ AvailableCount(categories) = 4
    /\ categories.activityRecency.available


-----------------------------------------------------------------------------
(* The final score as a mean of the available categories *)

\* the categories that enter the final score, and the scores they hold
ScoredKeys(cats) == {k \in DOMAIN cats : Scored(cats, k)}
ScoresOf(cats) == {cats[k].score : k \in ScoredKeys(cats)}

\* score lies between the lowest and the highest score of the categories
\* that enter it
WithinScores(score, cats) ==
    /\ \E s \in ScoresOf(cats) : s <= score
    /\ \E s \in ScoresOf(cats) : score <= s

\* no higher score of one scored category, whatever the rounding of an exact
\* half does, gives a final score below score
NeverLoweredByRaising(score, cats) ==
    \A k \in ScoredKeys(cats) :
        \A higher \in {cats[k].score + 1, cats[k].score + 7, 100} :
            \A tieDown \in BOOLEAN :
                (higher > cats[k].score /\ higher <= 100) =>
                    calculateFinalScore(
                        [cats EXCEPT ![k].score = higher], tieDown).finalScore
                        >= score

\* the final score is as claimed for the categories it was computed from
MeanAsClaimed(score, cats) ==
    /\ score \in 0..100
    /\ WithinScores(score, cats)
    /\ \A s \in 0..100 : ScoresOf(cats) = {s} => score = s
    /\ NeverLoweredByRaising(score, cats)

\* C29: the pulseScore of a success result, and the finalScore of
\* calculateFinalScore called on any categories map with an available
\* category, is an integer in 0..100 between the minimum and the maximum of
\* the available categories' scores; it is s when they all are s; and raising
\* the score of one available category never lowers it
C29_ScoreIsAMean ==
    /\ (op = "calculateFinalScore" /\ ScoredKeys(categories) # {}) =>
           MeanAsClaimed(result.value.finalScore, categories)
    /\ Succeeded =>
           MeanAsClaimed(result.value.pulseScore, result.value.categories)

\* C29 witness: a success result with a category missing whose pulseScore
\* lies strictly between its lowest and its highest category score
C29_Witness ==
    /\ Succeeded
    /\ AvailableCount(categories) < 7
    /\ \E s \in ScoresOf(categories) : s < result.value.pulseScore
    /\ \E s \in ScoresOf(categories) : result.value.pulseScore < s

====
